---------------------------- MODULE Spec2Model ----------------------------
(***************************************************************************)
(* A model of mongoschema (src/mongoschema/base.py): MongoSchema entity    *)
(* types, their identity cache, the MongoDoc wrapper and the storage       *)
(* collection they write to.                                               *)
(*                                                                         *)
(* Python values are records [t, s, n, l]: a type tag, a string payload,   *)
(* a number payload and a list payload.  Documents (dict) are functions    *)
(* from key strings to values.  A MongoDoc object is an index into the     *)
(* sequence heap, so that "is" (object identity) is equality of indexes.   *)
(* A storage collection is a set of stored documents with pairwise         *)
(* distinct "_id".                                                         *)
(***************************************************************************)
EXTENDS Integers, Sequences, FiniteSets, TLC

\* Number of ObjectId values the generator ObjectId() hands out under the
\* specification Spec.
MaxIds == 1
\* Number of MongoDoc objects alive at once.
MaxWrappers == 3
\* Number of documents created under the specification SpecDoc.
MaxDocs == 2
\* Number of documents written to a collection directly under the
\* specification SpecMigrate.
MaxRaw == 2
\* Number of documents created under the specification SpecRef.
MaxRefDocs == 3
\* Number of keys of a dict passed in.
MaxKeys == 2
\* Number of documents created under the specification SpecDict.
MaxDictDocs == 2
\* Under the specification SpecList: number of documents created, length of
\* the lists passed in, number of MongoDocRefList objects alive at once.
MaxListDocs == 2
MaxLen == 2
MaxProxies == 2
\* the depth of nested to_dict calls the interpreter allows
\* (sys.getrecursionlimit())
MaxDepth == 3

VARIABLES
    db,             \* collection name -> set of stored documents
    heap,           \* sequence of MongoDoc objects [ms, doc]
    cache,          \* class -> (ObjectId number -> heap index): cls.cache
    cache_enabled,  \* class -> "on" | "off" | "inherit": cls.cache_enabled
    nextId,         \* next value of the ObjectId() generator
    ret,            \* the last call: operation, receiver, arguments, result
    handed,         \* class -> {[h, oid, via]}: wrappers handed out via
                    \* "create", "get" or "list" with the cache of the class
                    \* enabled, since the last reset, for ids still stored
    unset,          \* {<<h, key>>}: fields deleted by del doc[key], not restored
    proxies,        \* sequence of MongoDocRefList objects [owner, key, items]
    threads         \* request -> the call it is in the middle of

vars == <<db, heap, cache, cache_enabled, nextId, ret, handed, unset, proxies,
          threads>>

-----------------------------------------------------------------------------
(* Python values *)

Str(s) == [t |-> "str", s |-> s, n |-> 0, l |-> <<>>]
Num(n) == [t |-> "int", s |-> "", n |-> n, l |-> <<>>]
Oid(n) == [t |-> "ObjectId", s |-> "", n |-> n, l |-> <<>>]
\* a MongoDoc instance passed as a value (heap index n)
Ref(h) == [t |-> "MongoDoc", s |-> "", n |-> h, l |-> <<>>]
List(l) == [t |-> "list", s |-> "", n |-> 0, l |-> l]
NoDefault == [t |-> "NoDefault", s |-> "", n |-> 0, l |-> <<>>]
NoValue == [t |-> "NoValue", s |-> "", n |-> 0, l |-> <<>>]
\* a dict held as a value: d maps its keys to values
Dict(d) == [t |-> "dict", s |-> "", n |-> 0, l |-> <<d>>]
None == [t |-> "None", s |-> "", n |-> 0, l |-> <<>>]

\* dict helpers
EmptyDoc == [k \in {} |-> None]
Put(d, k, v) == [x \in (DOMAIN d) \cup {k} |-> IF x = k THEN v ELSE d[x]]
Del(d, k) == [x \in (DOMAIN d) \ {k} |-> d[x]]

-----------------------------------------------------------------------------
(* Entity types *)

Classes == {"MongoSchema", "User", "Farmer", "WithOptionalField",
            "EmailEntry", "Account", "UserAfterChanges", "Email",
            "SchemaWithList", "SchemaWithDict", "Session",
            "Referencer", "Referenced"}

\* the classes that have a collection and are used for CRUD
Entities == Classes \ {"MongoSchema"}

Base(c) == IF c = "Farmer" THEN "User" ELSE "MongoSchema"

__subclasses__(c) == {d \in Classes \ {"MongoSchema"} : Base(d) = c}

Collection(c) ==
    CASE c = "User" -> "user"
      [] c = "Farmer" -> "farmer"
      [] c = "WithOptionalField" -> "with_optional_field"
      [] c = "EmailEntry" -> "email_entry"
      [] c = "Account" -> "account"
      [] c = "UserAfterChanges" -> "user_after_changes"
      [] c = "Email" -> "email"
      [] c = "SchemaWithList" -> "with_list"
      [] c = "SchemaWithDict" -> "user"
      [] c = "Session" -> "session"
      [] c = "Referencer" -> "referencer"
      [] c = "Referenced" -> "referenced"

Collections == {Collection(c) : c \in Entities}

\* keys that carry a unique index (indexes = [['username', {'unique': True}]])
UniqueKeys(coll) ==
    IF coll \in {"user", "farmer", "user_after_changes"} THEN {"username"}
    ELSE {}

MF(type, default, default_func, required, allowed_vals, validate_regexp) ==
    [type |-> type, default |-> default, default_func |-> default_func,
     required |-> required, allowed_vals |-> allowed_vals,
     validate_regexp |-> validate_regexp, list |-> FALSE]

\* [MF(...)]: a list of entries of the field
ListOf(mf) == [mf EXCEPT !.list = TRUE]

\* the schema a class declares, before 'id' is injected
DeclaredSchema(c) ==
    CASE c = "User" ->
           [k \in {"username"} |-> MF("str", NoDefault, "", TRUE, {}, "")]
      [] c = "Farmer" ->
           [k \in {"farm_name", "username"} |->
               MF("str", NoDefault, "", TRUE, {}, "")]
      [] c = "WithOptionalField" ->
           [k \in {"field"} |-> MF("str", NoDefault, "", FALSE, {}, "")]
      [] c = "EmailEntry" ->
           [k \in {"email"} |-> MF("str", NoDefault, "", TRUE, {}, "email")]
      [] c = "Account" ->
           [k \in {"role"} |->
               MF("str", Str("guest"), "", FALSE,
                  {Str("guest"), Str("admin")}, "")]
      [] c = "UserAfterChanges" ->
           [k \in {"username", "lang"} |->
               IF k = "lang" THEN MF("str", Str("en"), "", TRUE, {}, "")
               ELSE MF("str", NoDefault, "", TRUE, {}, "")]
      [] c = "Email" ->
           [k \in {"user", "subject", "body"} |->
               IF k = "user" THEN MF("User", NoDefault, "", TRUE, {}, "")
               ELSE MF("str", NoDefault, "", TRUE, {}, "")]
      [] c = "SchemaWithList" ->
           [k \in {"users", "numbers"} |->
               IF k = "users"
               THEN ListOf(MF("User", NoDefault, "", TRUE, {}, ""))
               ELSE ListOf(MF("int", NoDefault, "", TRUE, {}, ""))]
      [] c = "SchemaWithDict" ->
           [k \in {"data", "list_data"} |->
               IF k = "data" THEN MF("dict", NoDefault, "", TRUE, {}, "")
               ELSE ListOf(MF("dict", NoDefault, "", TRUE, {}, ""))]
      [] c = "Session" ->
           [k \in {"token", "lang"} |->
               IF k = "token"
               THEN MF("ObjectId", NoDefault, "ObjectId", TRUE, {}, "")
               ELSE MF("str", Str("en"), "", TRUE, {}, "")]
      [] c = "Referencer" ->
           [k \in {"referenced"} |->
               MF("Referenced", NoDefault, "", TRUE, {}, "")]
      [] c = "Referenced" ->
           [k \in {"nothing", "referencer"} |->
               IF k = "nothing" THEN MF("str", NoDefault, "", TRUE, {}, "")
               ELSE MF("Referencer", NoDefault, "", FALSE, {}, "")]
      [] OTHER -> [k \in {} |-> MF("str", NoDefault, "", TRUE, {}, "")]

\* _initschema: every schema carries 'id'
_initschema(c) ==
    IF "id" \in DOMAIN DeclaredSchema(c)
    THEN DeclaredSchema(c)
    ELSE [k \in (DOMAIN DeclaredSchema(c)) \cup {"id"} |->
            IF k = "id"
            THEN MF("ObjectId", NoDefault, "ObjectId", FALSE, {}, "")
            ELSE DeclaredSchema(c)[k]]

Schema(c) == _initschema(c)

IsMongoSchema(type) == type \in Classes

-----------------------------------------------------------------------------
(* Strings as character sequences, for the key codec and the regular       *)
(* expression.                                                             *)

KeyNames == {"id", "_id", "username", "farm_name", "field", "email", "role",
             "blah", "lang", "user", "subject", "body", "token",
             "referenced", "nothing", "referencer",
             "users", "numbers", "data", "list_data",
             "k", "a.b", "a&period;b", "$", "&dollar;", ".", "&period;"}

Chars(s) ==
    CASE s = "id" -> <<"i", "d">>
      [] s = "_id" -> <<"_", "i", "d">>
      [] s = "username" -> <<"u", "s", "e", "r", "n", "a", "m", "e">>
      [] s = "farm_name" -> <<"f", "a", "r", "m", "_", "n", "a", "m", "e">>
      [] s = "field" -> <<"f", "i", "e", "l", "d">>
      [] s = "email" -> <<"e", "m", "a", "i", "l">>
      [] s = "role" -> <<"r", "o", "l", "e">>
      [] s = "blah" -> <<"b", "l", "a", "h">>
      [] s = "lang" -> <<"l", "a", "n", "g">>
      [] s = "token" -> <<"t", "o", "k", "e", "n">>
      [] s = "referenced" ->
           <<"r", "e", "f", "e", "r", "e", "n", "c", "e", "d">>
      [] s = "nothing" -> <<"n", "o", "t", "h", "i", "n", "g">>
      [] s = "referencer" ->
           <<"r", "e", "f", "e", "r", "e", "n", "c", "e", "r">>
      [] s = "user" -> <<"u", "s", "e", "r">>
      [] s = "subject" -> <<"s", "u", "b", "j", "e", "c", "t">>
      [] s = "body" -> <<"b", "o", "d", "y">>
      [] s = "users" -> <<"u", "s", "e", "r", "s">>
      [] s = "numbers" -> <<"n", "u", "m", "b", "e", "r", "s">>
      [] s = "data" -> <<"d", "a", "t", "a">>
      [] s = "list_data" -> <<"l", "i", "s", "t", "_", "d", "a", "t", "a">>
      [] s = "k" -> <<"k">>
      [] s = "a.b" -> <<"a", ".", "b">>
      [] s = "a&period;b" ->
           <<"a", "&", "p", "e", "r", "i", "o", "d", ";", "b">>
      [] s = "$" -> <<"$">>
      [] s = "&dollar;" -> <<"&", "d", "o", "l", "l", "a", "r", ";">>
      [] s = "." -> <<".">>
      [] s = "&period;" -> <<"&", "p", "e", "r", "i", "o", "d", ";">>
      [] s = "s@g.c" -> <<"s", "@", "g", ".", "c">>
      [] s = "nobody" -> <<"n", "o", "b", "o", "d", "y">>
      [] s = "a@b" -> <<"a", "@", "b">>

KeyOfChars(cs) == CHOOSE k \in KeyNames : Chars(k) = cs

DICT_KEY_REPLACEMENTS ==
    << << <<"$">>, <<"&", "d", "o", "l", "l", "a", "r", ";">> >>,
       << <<".">>, <<"&", "p", "e", "r", "i", "o", "d", ";">> >> >>

\* str.replace(old, new): every non-overlapping occurrence, left to right
RECURSIVE Replace(_, _, _)
Replace(cs, old, new) ==
    IF Len(cs) < Len(old) THEN cs
    ELSE IF SubSeq(cs, 1, Len(old)) = old
         THEN new \o Replace(SubSeq(cs, Len(old) + 1, Len(cs)), old, new)
         ELSE <<Head(cs)>> \o Replace(Tail(cs), old, new)

RECURSIVE FixKeyFrom(_, _, _)
FixKeyFrom(cs, fordb, i) ==
    IF i > Len(DICT_KEY_REPLACEMENTS) THEN cs
    ELSE LET orig == DICT_KEY_REPLACEMENTS[i][1]
             replacewith == DICT_KEY_REPLACEMENTS[i][2]
         IN FixKeyFrom(IF fordb THEN Replace(cs, orig, replacewith)
                                ELSE Replace(cs, replacewith, orig),
                       fordb, i + 1)

_fix_single_dict_key(cs, fordb) == FixKeyFrom(cs, fordb, 1)

FixKey(k, fordb) == KeyOfChars(_fix_single_dict_key(Chars(k), fordb))

\* _fix_dict_keys (fordb) and _unfix_dict_keys on a value and on a dict:
\* every key of every dict rewritten, in dicts and in the elements of lists.
\* The loop renames the keys of the dict it iterates over; on the small
\* dicts of this model (MaxKeys) the loop still visits every key, unless two
\* keys are renamed to the same key: see KeysCollide.
RECURSIVE FixValue(_, _)
RECURSIVE FixDoc(_, _)
FixValue(v, fordb) ==
    IF v.t = "dict" THEN Dict(FixDoc(v.l[1], fordb))
    ELSE IF v.t = "list"
         THEN List([i \in 1..Len(v.l) |-> FixValue(v.l[i], fordb)])
    ELSE v

FixDoc(doc, fordb) ==
    [k2 \in {FixKey(k, fordb) : k \in DOMAIN doc} |->
        FixValue(doc[CHOOSE k \in DOMAIN doc : FixKey(k, fordb) = k2], fordb)]

\* two keys of one dict are renamed to the same key: the second assignment
\* replaces the first, "del doc[old_key]" leaves the dict one key shorter,
\* and the iteration raises RuntimeError (dictionary changed size)
RECURSIVE KeysCollide(_, _)
KeysCollide(v, fordb) ==
    IF v.t = "dict"
    THEN \/ \E k1, k2 \in DOMAIN v.l[1] :
               k1 # k2 /\ FixKey(k1, fordb) = FixKey(k2, fordb)
         \/ \E k \in DOMAIN v.l[1] : KeysCollide(v.l[1][k], fordb)
    ELSE IF v.t = "list"
         THEN \E i \in 1..Len(v.l) : KeysCollide(v.l[i], fordb)
    ELSE FALSE

_fix_dict_keys(doc) == FixDoc(doc, TRUE)

_unfix_dict_keys(doc) == FixDoc(doc, FALSE)

\* re.compile('[^@]+@[^@]+\.[^@]+').match(s): anchored at the start only
EmailRegexpMatch(cs) ==
    \E i \in 1..Len(cs) : \E j \in 1..Len(cs) :
        /\ i >= 2 /\ cs[i] = "@"
        /\ \A x \in 1..(i - 1) : cs[x] # "@"
        /\ j >= i + 2 /\ cs[j] = "."
        /\ \A x \in (i + 1)..(j - 1) : cs[x] # "@"
        /\ j + 1 <= Len(cs) /\ cs[j + 1] # "@"

RegexpMatch(regexp, v) ==
    IF regexp = "email" THEN EmailRegexpMatch(Chars(v.s)) ELSE TRUE

-----------------------------------------------------------------------------
(* MongoField *)

has_default(mf) == mf.default # NoDefault

\* fresh: the value default_func() returns when it is called now
filldefault(mf, fresh) == IF mf.default_func # "" THEN fresh ELSE mf.default

-----------------------------------------------------------------------------
(* Defaults and validation *)

NoFill_fill_defaults(c, doc, fresh) == doc

_fill_defaults(c, doc, fresh) ==
    LET schema == Schema(c)
        filled == {k \in DOMAIN schema :
                     k \notin DOMAIN doc
                     /\ (schema[k].list \/ has_default(schema[k]))}
    IN [k \in (DOMAIN doc) \cup filled |->
          IF k \in DOMAIN doc THEN doc[k]
          ELSE IF schema[k].list THEN List(<<>>)
          ELSE filldefault(schema[k], fresh)]

\* isinstance(entry, type) for the scalar types of the model
IsInstance(entry, type) == entry.t = type

\* "" when the entry passes, else the exception raised
_check_entry_type(entry, mf) ==
    IF IsMongoSchema(mf.type) /\ entry.t # "ObjectId" THEN "ValidationError"
    ELSE IF ~IsMongoSchema(mf.type) /\ ~IsInstance(entry, mf.type)
         THEN "ValidationError"
    ELSE IF mf.allowed_vals # {} /\ entry \notin mf.allowed_vals
         THEN "ValidationError"
    ELSE ""

_validate_mongo_field(key, doc, mf) ==
    IF key \notin DOMAIN doc
    THEN IF mf.required THEN "RequiredNotFoundException" ELSE ""
    ELSE IF _check_entry_type(doc[key], mf) # ""
         THEN _check_entry_type(doc[key], mf)
    ELSE IF mf.validate_regexp # "" /\ ~RegexpMatch(mf.validate_regexp, doc[key])
         THEN "ValidationError"
    ELSE ""

_basic_schema_validation(c, doc) ==
    IF \E key \in DOMAIN doc : key \notin DOMAIN Schema(c)
    THEN "ValidationError" ELSE ""

\* the exceptions _validate can raise on doc (which one of several failing
\* fields raises first depends on the dict's iteration order); {} when the
\* document is valid
_validate(c, doc) ==
    LET schema == Schema(c) IN
    IF \E key \in DOMAIN doc : key \notin DOMAIN schema
    THEN {"ValidationError"}
    ELSE {e \in {"ValidationError", "RequiredNotFoundException", "KeyError"} :
            \E key \in DOMAIN schema :
                IF schema[key].list
                THEN IF key \notin DOMAIN doc THEN e = "KeyError"
                     ELSE \E i \in 1..Len(doc[key].l) :
                            e = _check_entry_type(doc[key].l[i], schema[key])
                ELSE e = _validate_mongo_field(key, doc, schema[key])}

-----------------------------------------------------------------------------
(* The storage collection (pymongo), as base.py uses it *)

Matches(d, query) ==
    \A k \in DOMAIN query : k \in DOMAIN d /\ d[k] = query[k]

\* collection.find(query)
coll_find(docs, query) == {d \in docs : Matches(d, query)}

\* a missing key is indexed as null
IndexedValue(d, k) == IF k \in DOMAIN d THEN d[k] ELSE None

\* the document d would collide with another document of the collection
DuplicateKey(coll, others, d) ==
    \E o \in others :
        \/ o["_id"] = d["_id"]
        \/ \E k \in UniqueKeys(coll) : IndexedValue(o, k) = IndexedValue(d, k)

\* collection.insert(doc)
coll_insert(coll, docs, doc) ==
    IF DuplicateKey(coll, docs, doc)
    THEN [err |-> "DuplicateKeyError", docs |-> docs]
    ELSE [err |-> "", docs |-> docs \cup {doc}]

\* collection.update({'_id': id}, {'$set': setdoc}): no upsert
coll_update_set(coll, docs, id, setdoc) ==
    LET hit == {d \in docs : d["_id"] = id} IN
    IF hit = {} THEN [err |-> "", docs |-> docs]
    ELSE LET old == CHOOSE d \in hit : TRUE
             new == [k \in (DOMAIN old) \cup (DOMAIN setdoc) |->
                        IF k \in DOMAIN setdoc THEN setdoc[k] ELSE old[k]]
         IN IF DuplicateKey(coll, docs \ {old}, new)
            THEN [err |-> "DuplicateKeyError", docs |-> docs]
            ELSE [err |-> "", docs |-> (docs \ {old}) \cup {new}]

\* collection.update({'_id': id}, {'$unset': {key: True}})
coll_update_unset(coll, docs, id, key) ==
    LET hit == {d \in docs : d["_id"] = id} IN
    IF hit = {} THEN [err |-> "", docs |-> docs]
    ELSE LET old == CHOOSE d \in hit : TRUE
             new == Del(old, key)
         IN IF DuplicateKey(coll, docs \ {old}, new)
            THEN [err |-> "DuplicateKeyError", docs |-> docs]
            ELSE [err |-> "", docs |-> (docs \ {old}) \cup {new}]

\* collection.remove({'_id': id})
coll_remove(docs, id) == {d \in docs : d["_id"] # id}

-----------------------------------------------------------------------------
(* Between the Python form and the stored form of a document *)

\* ObjectId(x) of an ObjectId is that ObjectId
ObjectId(x) == x

_fromdb_fix_id(doc) == Put(Del(doc, "_id"), "id", doc["_id"])

_fordb_fix_id(kwargs, forquery, fresh) ==
    IF "id" \notin DOMAIN kwargs /\ ~forquery
    THEN Put(kwargs, "_id", fresh)
    ELSE IF "id" \in DOMAIN kwargs
         THEN Put(Del(kwargs, "id"), "_id", ObjectId(kwargs["id"]))
         ELSE kwargs

_fordb(doc, fresh) == _fix_dict_keys(_fordb_fix_id(doc, FALSE, fresh))

\* a float is [t |-> "float"] with its whole value in n
_fix_int_float(c, doc) ==
    [k \in DOMAIN doc |->
        IF k \in DOMAIN Schema(c) /\ ~Schema(c)[k].list
           /\ Schema(c)[k].type = "int" /\ doc[k].t = "float"
        THEN Num(doc[k].n) ELSE doc[k]]

\* the doc of the MongoDoc that _fromdb builds
_fromdb(c, doc, fresh) ==
    _unfix_dict_keys(
        _fix_int_float(c, _fill_defaults(c, _fromdb_fix_id(doc), fresh)))

InsertOnly_WriteStore(c, docs, doc, insert_or_save, fresh) ==
    IF insert_or_save = "insert"
    THEN coll_insert(Collection(c), docs, _fordb(doc, fresh))
    ELSE [err |-> "", docs |-> docs]

\* the storage write of _writedoc, on a validated copy of doc
WriteStore(c, docs, doc, insert_or_save, fresh) ==
    LET fordb == _fordb(doc, fresh) IN
    IF insert_or_save = "insert"
    THEN coll_insert(Collection(c), docs, fordb)
    ELSE coll_update_set(Collection(c), docs, fordb["_id"], Del(fordb, "_id"))

\* _writedoc: the possible outcomes [err, docs, doc]: the exception raised
\* ("" for none), the collection afterwards and the document returned
WriteFirst_writedoc(c, docs, doc, insert_or_save, fresh) ==
    LET w == WriteStore(c, docs, doc, insert_or_save, fresh) IN
    IF _validate(c, doc) # {}
    THEN {[err |-> e, docs |-> w.docs, doc |-> doc] : e \in _validate(c, doc)}
    ELSE {[err |-> w.err, docs |-> w.docs,
           doc |-> _fromdb(c, _fordb(doc, fresh), fresh)]}

_writedoc(c, docs, doc, insert_or_save, fresh) ==
    IF _validate(c, doc) # {}
    THEN {[err |-> e, docs |-> docs, doc |-> doc] : e \in _validate(c, doc)}
    ELSE IF KeysCollide(Dict(doc), TRUE)
    THEN \* raised inside _fordb, before the write
         {[err |-> "RuntimeError", docs |-> docs, doc |-> doc]}
    ELSE LET w == WriteStore(c, docs, doc, insert_or_save, fresh) IN
         IF w.err # ""
         THEN {[err |-> w.err, docs |-> docs, doc |-> doc]}
         ELSE {[err |-> "", docs |-> w.docs,
                doc |-> _fromdb(c, _fordb(doc, fresh), fresh)]}

-----------------------------------------------------------------------------
(* The identity cache *)

RECURSIVE CacheEnabled(_, _)
\* the class attribute cache_enabled, looked up along the base classes
CacheEnabled(flags, c) ==
    IF flags[c] # "inherit" THEN flags[c] = "on"
    ELSE CacheEnabled(flags, Base(c))

_set_cache(flags, c, enabled_or_disabled) ==
    [flags EXCEPT ![c] = IF enabled_or_disabled THEN "on" ELSE "off"]

EmptyCache == [x \in {} |-> 0]

DirectOnly_get_all_classes(c) == {c} \cup __subclasses__(c)

RECURSIVE _get_all_classes(_)
_get_all_classes(c) ==
    {c} \cup UNION {_get_all_classes(d) : d \in __subclasses__(c)}

\* cls.cache[mdoc.id] = mdoc
add_to_cache(cch, c, oid, h) ==
    [cch EXCEPT ![c] = [x \in (DOMAIN cch[c]) \cup {oid} |->
                           IF x = oid THEN h ELSE cch[c][x]]]

_remove_from_cache(cch, c, oid) ==
    [cch EXCEPT ![c] = [x \in (DOMAIN cch[c]) \ {oid} |-> cch[c][x]]]

\* "if cls.cache_enabled: if id in cls.cache: return cls.cache[id]":
\* the cached MongoDoc for oid, or 0 when a new one has to be built
IgnoreFlag_CacheLookup(flags, cch, c, oid) ==
    IF oid \in DOMAIN cch[c] THEN cch[c][oid] ELSE 0

NeverHit_CacheLookup(flags, cch, c, oid) == 0

CacheLookup(flags, cch, c, oid) ==
    IF CacheEnabled(flags, c) /\ oid \in DOMAIN cch[c] THEN cch[c][oid] ELSE 0

-----------------------------------------------------------------------------
(* References *)

Error(name) == [t |-> "Error", s |-> name, n |-> 0, l |-> <<>>]

\* x.id of a value handed in for a reference
IdOf(hp, x) ==
    IF x.t = "MongoDoc" THEN hp[x.n].doc["id"] ELSE Error("AttributeError")

Nested_deref_if_needed(hp, mf, value) == value

_deref_if_needed(hp, mf, value) ==
    IF mf.list /\ IsMongoSchema(mf.type)
    THEN IF \E i \in 1..Len(value.l) : IdOf(hp, value.l[i]).t = "Error"
         THEN Error("AttributeError")
         ELSE List([i \in 1..Len(value.l) |-> IdOf(hp, value.l[i])])
    ELSE IF mf.list THEN value
    ELSE IF IsMongoSchema(mf.type)
         THEN IF value = None THEN Error("ValueError") ELSE IdOf(hp, value)
         ELSE value

\* [err, doc]
_fix_references(hp, c, doc) ==
    LET new == [k \in DOMAIN doc |->
                  IF k = "id" THEN doc[k]
                  ELSE _deref_if_needed(hp, Schema(c)[k], doc[k])]
        bad == {k \in DOMAIN doc : new[k].t = "Error"}
    IN IF bad = {} THEN [err |-> "", doc |-> new]
       ELSE [err |-> new[CHOOSE k \in bad : TRUE].s, doc |-> doc]

\* a MongoDoc in a query stands for its id
_mongodoc_to_id(hp, query) ==
    [k \in DOMAIN query |->
        IF query[k].t = "MongoDoc" THEN hp[query[k].n].doc["id"] ELSE query[k]]

\* MongoDoc.__getattr__ on a field that is no reference: the value read, or
\* an Error
__getattr__(c, doc, key) ==
    IF key \notin DOMAIN Schema(c) THEN Error("KeyError")
    ELSE IF ~Schema(c)[key].required /\ key \notin DOMAIN doc THEN NoValue
    ELSE IF key \notin DOMAIN doc THEN Error("KeyError")
    ELSE doc[key]

-----------------------------------------------------------------------------
(* Inputs *)

\* the lists of at most MaxLen elements of a set
ListsOver(elements) ==
    {List(l) : l \in UNION {[1..n -> elements] : n \in 0..MaxLen}}

\* the values a caller passes for a key
Candidates(k) ==
    CASE k = "username" -> {Str("a"), Str("b"), Num(1)}
      [] k = "farm_name" -> {Str("f")}
      [] k = "field" -> {Str("x"), Num(1)}
      [] k = "email" -> {Str("s@g.c"), Str("nobody")}
      [] k = "role" -> {Str("admin"), Str("root")}
      [] k = "blah" -> {Str("a")}
      [] k = "lang" -> {Str("pt")}
      [] k = "token" -> {Oid(1), Str("x")}
      [] k = "nothing" -> {Str("nothing")}
      [] k = "referenced" -> {Ref(h) : h \in {x \in 1..Len(heap) :
                                                heap[x].ms = "Referenced"}}
      [] k = "referencer" -> {Ref(h) : h \in {x \in 1..Len(heap) :
                                                heap[x].ms = "Referencer"}}
      [] k = "subject" -> {Str("s")}
      [] k = "body" -> {Str("t")}
      [] k = "numbers" -> {List(<<Num(1)>>)}
      [] k = "data" -> {Dict([x \in {"a.b"} |-> Str("v")]),
                        Dict([x \in {"k"} |->
                                 Dict([y \in {"$"} |-> Num(1)])]),
                        Str("x")}
      [] k = "list_data" -> {List(<<Dict([x \in {"a.b"} |-> Str("v")])>>)}
      [] k = "users" -> ListsOver({Ref(h) : h \in {x \in 1..Len(heap) :
                                                     heap[x].ms = "User"}}
                                  \cup {Oid(1)})
      [] k = "user" -> {Ref(h) : h \in {x \in 1..Len(heap) :
                                          heap[x].ms = "User"}}
                       \cup {Oid(1), None}
      [] k = "id" -> {Oid(i) : i \in 1..(nextId - 1)}

\* the declared fields, and a key no schema has
FieldKeys(c) == (DOMAIN Schema(c)) \ {"id"}
InputKeys(c) == FieldKeys(c) \cup {"blah"}

RECURSIVE KwargsOver(_)
KwargsOver(keys) ==
    IF keys = {} THEN {EmptyDoc}
    ELSE LET k == CHOOSE x \in keys : TRUE
             rest == KwargsOver(keys \ {k})
         IN rest \cup {Put(d, k, v) : d \in rest, v \in Candidates(k)}

CreateInputs(c) == KwargsOver(InputKeys(c))
UpdateInputs(c) == KwargsOver(InputKeys(c))

Queries(c) ==
    {EmptyDoc}
    \cup {[k \in {"id"} |-> Oid(i)] : i \in 1..MaxIds}
    \cup UNION {{[k \in {f} |-> v] : v \in {x \in Candidates(f) : x.t = "str"}} :
                   f \in FieldKeys(c)}

\* queries that combine the id with another field: get(id=x, f=v)
MixedQueries(c) ==
    {Put(q, "id", Oid(i)) : q \in Queries(c) \ {EmptyDoc}, i \in 1..MaxIds}
    \ Queries(c)

-----------------------------------------------------------------------------
(* State *)

\* op: the method; cls: the class it ran on; h: the MongoDoc it ran on or
\* returned (0: None); hs: the MongoDocs a list returned; err: the exception
\* raised ("": none); oid: the id passed or, for a MongoDoc method, the
\* id of the MongoDoc (0: none); key: the key passed; wrote: the call changed
\* the stored documents; follows: a get directly after a
\* clear_cache_and_init, or a reload directly after a del on the same MongoDoc;
\* discarded: a reload that changed the doc of its MongoDoc
Call(op, c, h, hs, err, oid, key, wrote) ==
    [op |-> op, cls |-> c, h |-> h, hs |-> hs, err |-> err, oid |-> oid,
     key |-> key, wrote |-> wrote,
     follows |-> \/ op = "get" /\ ret.op = "clear_cache_and_init"
                 \/ op = "reload" /\ ret.op = "delitem" /\ ret.h = h
                                  /\ ret.err = "",
     discarded |-> op = "reload" /\ heap' # heap]

\* the requests served concurrently, and a request between two calls
Requests == {1, 2}
Idle ==
    [pc |-> "idle", op |-> "", cls |-> "MongoSchema", kwargs |-> EmptyDoc,
     doc |-> EmptyDoc, stack |-> <<>>]

Init ==
    /\ db = [coll \in Collections |-> {}]
    /\ heap = <<>>
    /\ cache = [c \in Classes |-> EmptyCache]
    /\ cache_enabled = [c \in Classes |->
                           IF c = "MongoSchema" THEN "on" ELSE "inherit"]
    /\ nextId = 1
    /\ ret = [op |-> "init", cls |-> "MongoSchema", h |-> 0, hs |-> {},
              err |-> "", oid |-> 0, key |-> "", wrote |-> FALSE,
              follows |-> FALSE, discarded |-> FALSE]
    /\ handed = [c \in Classes |-> {}]
    /\ unset = {}
    /\ proxies = <<>>
    /\ threads = [t \in Requests |-> Idle]

Enabled(c) == CacheEnabled(cache_enabled, c)

\* the wrappers handed out for class c while its cache is enabled
Hand(c, hs, via) ==
    IF Enabled(c)
    THEN [handed EXCEPT ![c] = @ \cup
            {[h |-> h, oid |-> heap'[h].doc["id"].n, via |-> via] : h \in hs}]
    ELSE handed

-----------------------------------------------------------------------------
(* MongoSchema: create, get, find, list, remove *)

\* limit: the ObjectId values the generator can hand out
create(c, kwargs, limit) ==
    LET fresh == Oid(nextId)
        filled == _fill_defaults(c, kwargs, fresh)
        e1 == _basic_schema_validation(c, filled)
        fixed == _fix_references(heap, c, filled)
        coll == Collection(c)
        h == Len(heap) + 1
        fail(e) == /\ ret' = Call("create", c, 0, {}, e, 0, "", FALSE)
                   /\ UNCHANGED <<db, heap, cache, cache_enabled, nextId,
                                  handed, unset, proxies, threads>>
    IN
    /\ "id" \in DOMAIN kwargs \/ nextId <= limit
    /\ IF e1 # "" THEN fail(e1)
       ELSE IF fixed.err # "" THEN fail(fixed.err)
       ELSE \E out \in _writedoc(c, db[coll], fixed.doc, "insert", fresh) :
              IF out.err # ""
              THEN /\ ret' = Call("create", c, 0, {}, out.err, 0, "",
                                  out.docs # db[coll])
                   /\ db' = [db EXCEPT ![coll] = out.docs]
                   /\ UNCHANGED <<heap, cache, cache_enabled, nextId, handed,
                                  unset, proxies, threads>>
              ELSE /\ Len(heap) < MaxWrappers
                   /\ db' = [db EXCEPT ![coll] = out.docs]
                   /\ heap' = Append(heap, [ms |-> c, doc |-> out.doc])
                   /\ cache' = IF Enabled(c)
                               THEN add_to_cache(cache, c, out.doc["id"].n, h)
                               ELSE cache
                   /\ nextId' = IF "id" \in DOMAIN kwargs THEN nextId
                                ELSE nextId + 1
                   /\ ret' = Call("create", c, h, {h}, "", out.doc["id"].n, "",
                                  TRUE)
                   /\ handed' = Hand(c, {h}, "create")
                   /\ UNCHANGED <<cache_enabled, unset, proxies, threads>>

get(c, kwargs) ==
    LET query == _mongodoc_to_id(heap, kwargs)
        first == IF "id" \in DOMAIN query
                 THEN CacheLookup(cache_enabled, cache, c, query["id"].n)
                 ELSE 0
        qoid == IF "id" \in DOMAIN query THEN query["id"].n ELSE 0
        found == coll_find(db[Collection(c)],
                           _fordb_fix_id(query, TRUE, Oid(nextId)))
    IN
    IF first # 0
    THEN /\ heap' = heap
         /\ ret' = Call("get", c, first, {first}, "", qoid, "", FALSE)
         /\ handed' = Hand(c, {first}, "get")
         /\ UNCHANGED <<db, cache, cache_enabled, nextId, unset,
                        proxies, threads>>
    ELSE IF found = {}
    THEN /\ ret' = Call("get", c, 0, {}, "", qoid, "", FALSE)
         /\ UNCHANGED <<db, heap, cache, cache_enabled, nextId, handed, unset,
                        proxies, threads>>
    ELSE \E doc \in found :
           LET hit == CacheLookup(cache_enabled, cache, c, doc["_id"].n)
               h == Len(heap) + 1
           IN IF hit # 0
              THEN /\ heap' = heap
                   /\ ret' = Call("get", c, hit, {hit}, "", qoid, "", FALSE)
                   /\ handed' = Hand(c, {hit}, "get")
                   /\ UNCHANGED <<db, cache, cache_enabled, nextId, unset,
                                  proxies, threads>>
              ELSE /\ Len(heap) < MaxWrappers
                   /\ heap' = Append(heap,
                         [ms |-> c, doc |-> _fromdb(c, doc, Oid(nextId))])
                   /\ cache' = IF Enabled(c)
                               THEN add_to_cache(cache, c, doc["_id"].n, h)
                               ELSE cache
                   /\ ret' = Call("get", c, h, {h}, "", qoid, "", FALSE)
                   /\ handed' = Hand(c, {h}, "get")
                   /\ UNCHANGED <<db, cache_enabled, nextId, unset,
                                  proxies, threads>>

\* the documents of a cursor, one after the other
RECURSIVE Cursor(_)
Cursor(docs) ==
    IF docs = {} THEN <<>>
    ELSE LET d == CHOOSE x \in docs : TRUE IN <<d>> \o Cursor(docs \ {d})

\* find's generator run to its end: a new MongoDoc for every document
FindAll(c, kwargs, via) ==
    LET query == _mongodoc_to_id(heap, kwargs)
        docs == Cursor(coll_find(db[Collection(c)], query))
        hs == (Len(heap) + 1)..(Len(heap) + Len(docs))
    IN
    /\ Len(heap) + Len(docs) <= MaxWrappers
    /\ heap' = heap \o [i \in 1..Len(docs) |->
                          [ms |-> c, doc |-> _fromdb(c, docs[i], Oid(nextId))]]
    /\ ret' = Call(via, c, 0, hs, "", 0, "", FALSE)
    /\ handed' = Hand(c, hs, via)
    /\ UNCHANGED <<db, cache, cache_enabled, nextId, unset, proxies, threads>>

\* list(**kwargs): [x for x in cls.find(**kwargs)]
list(c, kwargs) == FindAll(c, kwargs, "list")

\* find(**kwargs), iterated to its end by the caller
find(c, kwargs) == FindAll(c, kwargs, "find")

\* cls.collection.insert_one(doc): a document written to the collection
\* directly, as it is, with the _id the driver generates
insert_one(c, doc, limit) ==
    LET coll == Collection(c)
        out == coll_insert(coll, db[coll], Put(doc, "_id", Oid(nextId)))
    IN
    /\ nextId <= limit
    /\ db' = [db EXCEPT ![coll] = out.docs]
    /\ nextId' = nextId + 1
    /\ ret' = Call("insert_one", c, 0, {}, out.err, nextId, "",
                   out.docs # db[coll])
    /\ UNCHANGED <<heap, cache, cache_enabled, handed, unset,
                   proxies, threads>>

\* the evictions of remove: "if cls.cache_enabled: cls._remove_from_cache"
RECURSIVE EvictAll(_, _, _)
EvictAll(cch, c, oids) ==
    IF oids = {} THEN cch
    ELSE LET x == CHOOSE o \in oids : TRUE
         IN EvictAll(_remove_from_cache(cch, c, x), c, oids \ {x})

RemoveEvicts(flags, cch, c, oids) ==
    IF CacheEnabled(flags, c) THEN EvictAll(cch, c, oids) ELSE cch

Remove(c, kwargs, op, h) ==
    LET query == IF "_id" \notin DOMAIN kwargs /\ "id" \in DOMAIN kwargs
                 THEN Put(Del(kwargs, "id"), "_id", kwargs["id"])
                 ELSE kwargs
        coll == Collection(c)
        gone == {d["_id"].n : d \in coll_find(db[coll], query)}
    IN
    /\ db' = [db EXCEPT ![coll] = {d \in @ : d["_id"].n \notin gone}]
    /\ cache' = RemoveEvicts(cache_enabled, cache, c, gone)
    /\ ret' = Call(op, c, h, {}, "",
                   IF "id" \in DOMAIN kwargs THEN kwargs["id"].n ELSE 0, "",
                   FALSE)
    /\ handed' = [handed EXCEPT ![c] = {e \in @ : e.oid \notin gone}]
    /\ UNCHANGED <<heap, cache_enabled, nextId, unset, proxies, threads>>

remove(c, kwargs) == Remove(c, kwargs, "remove", 0)

\* MongoDoc.remove
doc_remove(h) ==
    Remove(heap[h].ms, [k \in {"id"} |-> heap[h].doc["id"]], "doc_remove", h)

-----------------------------------------------------------------------------
(* MongoSchema: the cache switches and the reset *)

enable_cache(c) ==
    /\ cache_enabled' = _set_cache(cache_enabled, c, TRUE)
    /\ ret' = Call("enable_cache", c, 0, {}, "", 0, "", FALSE)
    /\ UNCHANGED <<db, heap, cache, nextId, handed, unset, proxies, threads>>

disable_cache(c) ==
    /\ cache_enabled' = _set_cache(cache_enabled, c, FALSE)
    /\ ret' = Call("disable_cache", c, 0, {}, "", 0, "", FALSE)
    /\ UNCHANGED <<db, heap, cache, nextId, handed, unset, proxies, threads>>

\* _init of every class of all_classes: cls.cache = {} (the indexes are
\* ensured again, the schema keeps its 'id')
_init(cch, all_classes) ==
    [c \in Classes |-> IF c \in all_classes THEN EmptyCache ELSE cch[c]]

clear_cache_and_init(c) ==
    /\ cache' = _init(cache, _get_all_classes(c))
    /\ handed' = [d \in Classes |->
                    IF d \in _get_all_classes(c) THEN {} ELSE handed[d]]
    /\ ret' = Call("clear_cache_and_init", c, 0, {}, "", 0, "", FALSE)
    /\ UNCHANGED <<db, heap, cache_enabled, nextId, unset, proxies, threads>>

-----------------------------------------------------------------------------
(* MongoDoc *)

SetDoc(h, doc) == [heap EXCEPT ![h].doc = doc]

\* the MongoDocRefList objects still bound after doc[key] of MongoDoc h was
\* given a new list object, for every key of keys
Unbind(ps, h, keys) ==
    SelectSeq(ps, LAMBDA p : ~(p.owner = h /\ p.key \in keys))

\* the stored document that carries the id of wrapper h
StoredOf(docs, id) == {d \in docs : d["_id"] = id}

__setattr__(h, key, value) ==
    LET c == heap[h].ms IN
    IF key \notin DOMAIN Schema(c)
    THEN /\ ret' = Call("setattr", c, h, {}, "KeyError", 0, key, FALSE)
         /\ UNCHANGED <<db, heap, cache, cache_enabled, nextId, handed, unset,
                        proxies, threads>>
    ELSE LET v == _deref_if_needed(heap, Schema(c)[key], value) IN
         IF v.t = "Error"
         THEN /\ ret' = Call("setattr", c, h, {}, v.s, 0, key, FALSE)
              /\ UNCHANGED <<db, heap, cache, cache_enabled, nextId, handed,
                             unset, proxies, threads>>
         ELSE /\ heap' = SetDoc(h, Put(heap[h].doc, key, v))
              /\ ret' = Call("setattr", c, h, {}, "", 0, key, FALSE)
              /\ proxies' = Unbind(proxies, h, {key})
              /\ UNCHANGED <<db, cache, cache_enabled, nextId, handed, unset,
                             threads>>

\* self.ms._writedoc(doc, 'update') for wrapper h holding doc
Save(h, doc, op) ==
    LET c == heap[h].ms
        coll == Collection(c)
    IN \E out \in _writedoc(c, db[coll], doc, "update", Oid(nextId)) :
         /\ db' = [db EXCEPT ![coll] = out.docs]
         /\ heap' = SetDoc(h, doc)
         /\ ret' = Call(op, c, h, {}, out.err, doc["id"].n,
                        IF \E k \in DOMAIN doc : <<h, k>> \in unset
                        THEN CHOOSE k \in DOMAIN doc : <<h, k>> \in unset
                        ELSE "",
                        out.docs # db[coll])
         /\ unset' = IF out.err = ""
                     THEN {u \in unset : ~(u[1] = h /\ u[2] \in DOMAIN doc)}
                     ELSE unset
         /\ UNCHANGED <<cache, cache_enabled, nextId, handed,
                        proxies, threads>>

save(h) == Save(h, heap[h].doc, "save")

\* the doc after "for key in raw_dict: self.ms.schema[key];
\* self.doc[key] = raw_dict[key]" has assigned the keys of done
Assigned(doc, raw_dict, done) ==
    [k \in (DOMAIN doc) \cup done |->
        IF k \in done THEN raw_dict[k] ELSE doc[k]]

update(h, raw_dict) ==
    LET c == heap[h].ms
        known == {k \in DOMAIN raw_dict : k \in DOMAIN Schema(c)}
    IN
    IF known # DOMAIN raw_dict
    THEN \* the loop stops at the first unknown key it meets
         \E done \in SUBSET known :
            /\ heap' = SetDoc(h, Assigned(heap[h].doc, raw_dict, done))
            /\ ret' = Call("update", c, h, {}, "KeyError",
                           heap[h].doc["id"].n, "", FALSE)
            /\ UNCHANGED <<db, cache, cache_enabled, nextId, handed, unset,
                           proxies, threads>>
    ELSE Save(h, Assigned(heap[h].doc, raw_dict, known), "update")

\* the doc reload assigns: _fromdb of the stored document
KeepLocal_Reloaded(c, doc, stored) == doc

Reloaded(c, doc, stored) == _fromdb(c, stored, Oid(0))

reload(h) ==
    LET c == heap[h].ms
        found == StoredOf(db[Collection(c)], heap[h].doc["id"])
    IN
    IF found = {}
    THEN \* _fromdb(None)
         /\ heap' = heap
         /\ ret' = Call("reload", c, h, {}, "TypeError", heap[h].doc["id"].n,
                        "", FALSE)
         /\ UNCHANGED <<db, cache, cache_enabled, nextId, handed, unset,
                        proxies, threads>>
    ELSE \E stored \in found :
           /\ heap' = SetDoc(h, Reloaded(c, heap[h].doc, stored))
           /\ ret' = Call("reload", c, h, {}, "", heap[h].doc["id"].n, "",
                          FALSE)
           /\ proxies' = Unbind(proxies, h, KeyNames)
           /\ UNCHANGED <<db, cache, cache_enabled, nextId, handed, unset,
                          threads>>

\* MongoDoc.__getattr__ on a field that refers to a MongoSchema class:
\* mf.type.get(id=self.doc[key]); ret.hs holds the MongoDoc returned
deref(h, key) ==
    LET c == heap[h].ms
        mf == Schema(c)[key]
        t == mf.type
        quiet(e, hs, oid) ==
            /\ heap' = heap
            /\ ret' = Call("getattr", c, h, hs, e, oid, key, FALSE)
    IN
    IF key \notin DOMAIN heap[h].doc
    THEN IF mf.required
         THEN quiet("KeyError", {}, 0)
              /\ UNCHANGED <<db, cache, cache_enabled, nextId, handed, unset,
                             proxies, threads>>
         ELSE \* NoValue()
              quiet("", {}, 0)
              /\ UNCHANGED <<db, cache, cache_enabled, nextId, handed, unset,
                             proxies, threads>>
    ELSE LET id == heap[h].doc[key]
             hit == CacheLookup(cache_enabled, cache, t, id.n)
             found == coll_find(db[Collection(t)], [k \in {"_id"} |-> id])
             new == Len(heap) + 1
         IN IF hit # 0
            THEN /\ quiet("", {hit}, id.n)
                 /\ handed' = Hand(t, {hit}, "get")
                 /\ UNCHANGED <<db, cache, cache_enabled, nextId, unset,
                                proxies, threads>>
            ELSE IF found = {}
            THEN \* None
                 quiet("", {}, id.n)
                 /\ UNCHANGED <<db, cache, cache_enabled, nextId, handed, unset,
                                proxies, threads>>
            ELSE \E doc \in found :
                   /\ Len(heap) < MaxWrappers
                   /\ heap' = Append(heap,
                         [ms |-> t, doc |-> _fromdb(t, doc, Oid(nextId))])
                   /\ cache' = IF Enabled(t)
                               THEN add_to_cache(cache, t, id.n, new)
                               ELSE cache
                   /\ ret' = Call("getattr", c, h, {new}, "", id.n, key, FALSE)
                   /\ handed' = Hand(t, {new}, "get")
                   /\ UNCHANGED <<db, cache_enabled, nextId, unset,
                                  proxies, threads>>

\* [mf[0].type.get(id=x) for x in ids], from the i-th id on: the heap and
\* the caches after the gets, and the MongoDocs got (0: None)
RECURSIVE GetEach(_, _, _, _, _)
GetEach(hp, cch, t, ids, i) ==
    IF i > Len(ids) THEN [heap |-> hp, cache |-> cch, items |-> <<>>]
    ELSE LET id == ids[i]
             hit == CacheLookup(cache_enabled, cch, t, id.n)
             found == coll_find(db[Collection(t)], [k \in {"_id"} |-> id])
             new == Len(hp) + 1
             one ==
                 IF hit # 0 THEN [heap |-> hp, cache |-> cch, item |-> hit]
                 ELSE IF found = {}
                 THEN [heap |-> hp, cache |-> cch, item |-> 0]
                 ELSE [heap |-> Append(hp,
                          [ms |-> t,
                           doc |-> _fromdb(t, CHOOSE d \in found : TRUE,
                                           Oid(nextId))]),
                       cache |-> IF Enabled(t)
                                 THEN add_to_cache(cch, t, id.n, new)
                                 ELSE cch,
                       item |-> new]
             rest == GetEach(one.heap, one.cache, t, ids, i + 1)
         IN [heap |-> rest.heap, cache |-> rest.cache,
             items |-> <<one.item>> \o rest.items]

\* MongoDoc.__getattr__ on a list of references: a new MongoDocRefList over
\* the MongoDocs got, with the list self.doc[key] itself as its reflist
deref_list(h, key) ==
    LET c == heap[h].ms
        t == Schema(c)[key].type
    IN
    IF key \notin DOMAIN heap[h].doc
    THEN /\ ret' = Call("getattr", c, h, {}, "KeyError", 0, key, FALSE)
         /\ UNCHANGED <<db, heap, cache, cache_enabled, nextId, handed, unset,
                        proxies, threads>>
    ELSE LET got == GetEach(heap, cache, t, heap[h].doc[key].l, 1)
             hs == {got.items[i] : i \in 1..Len(got.items)} \ {0}
         IN /\ Len(proxies) < MaxProxies
            /\ Len(got.heap) <= MaxWrappers
            /\ heap' = got.heap
            /\ cache' = got.cache
            /\ proxies' = Append(proxies,
                              [owner |-> h, key |-> key, items |-> got.items])
            /\ ret' = Call("getattr", c, h, hs, "", Len(proxies) + 1, key,
                           FALSE)
            /\ handed' = Hand(t, hs, "get")
            /\ UNCHANGED <<db, cache_enabled, nextId, unset, threads>>

-----------------------------------------------------------------------------
(* MongoDocRefList: a list of MongoDocs over reflist, the list of their ids *)
(* in the doc of the MongoDoc the list was read from                        *)

reflist(p) == heap[proxies[p].owner].doc[proxies[p].key].l

\* the sequence without its i-th element
RemoveAt(s, i) == SubSeq(s, 1, i - 1) \o SubSeq(s, i + 1, Len(s))

\* list.index: the first of the positions that match, 0 if none does
FirstIndex(hits) ==
    IF hits = {} THEN 0 ELSE CHOOSE i \in hits : \A j \in hits : i <= j

\* a call on MongoDocRefList p that leaves reflist as ids and the list itself
\* as items, and raises err ("": returns)
ListCall(op, p, ids, items, err) ==
    LET h == proxies[p].owner
        key == proxies[p].key
    IN /\ heap' = SetDoc(h, Put(heap[h].doc, key, List(ids)))
       /\ proxies' = [proxies EXCEPT ![p].items = items]
       /\ ret' = Call(op, heap[h].ms, h, {}, err, p, key, FALSE)
       /\ UNCHANGED <<db, cache, cache_enabled, nextId, handed, unset, threads>>

\* append(obj): self.reflist.append(obj.id), then list.append(obj)
reflist_append(p, obj) ==
    IF IdOf(heap, obj).t = "Error"
    THEN ListCall("append", p, reflist(p), proxies[p].items, "AttributeError")
    ELSE ListCall("append", p, Append(reflist(p), IdOf(heap, obj)),
                  Append(proxies[p].items, obj.n), "")

\* item == obj for an item of the list and a MongoDoc obj: the same object,
\* or MongoDoc.__eq__ (self.id == other.id); an item None has no id
ItemEq(item, obj) ==
    IF item = obj.n THEN "True"
    ELSE IF item = 0 THEN "AttributeError"
    ELSE IF heap[item].doc["id"] = heap[obj.n].doc["id"] THEN "True"
    ELSE "False"

\* remove(obj): self.reflist.remove(obj.id), then list.remove(obj), which
\* compares the items with obj one after the other
reflist_remove(p, obj) ==
    LET ids == reflist(p)
        items == proxies[p].items
        at == FirstIndex({i \in 1..Len(ids) : ids[i] = IdOf(heap, obj)})
        stop == FirstIndex({i \in 1..Len(items) :
                              ItemEq(items[i], obj) # "False"})
    IN
    IF IdOf(heap, obj).t = "Error"
    THEN ListCall("remove", p, ids, items, "AttributeError")
    ELSE IF at = 0 THEN ListCall("remove", p, ids, items, "ValueError")
    ELSE IF stop = 0
    THEN ListCall("remove", p, RemoveAt(ids, at), items, "ValueError")
    ELSE IF ItemEq(items[stop], obj) = "AttributeError"
    THEN ListCall("remove", p, RemoveAt(ids, at), items, "AttributeError")
    ELSE ListCall("remove", p, RemoveAt(ids, at), RemoveAt(items, stop), "")

\* pop(index): self.reflist.pop(index), then list.pop(index); index counts
\* from 0
reflist_pop(p, index) ==
    LET ids == reflist(p)
        items == proxies[p].items
    IN
    IF index + 1 > Len(ids)
    THEN ListCall("pop", p, ids, items, "IndexError")
    ELSE IF index + 1 > Len(items)
    THEN ListCall("pop", p, RemoveAt(ids, index + 1), items, "IndexError")
    ELSE ListCall("pop", p, RemoveAt(ids, index + 1),
                  RemoveAt(items, index + 1), "")

\* a key of a dict of the value, at any depth, holds '$' or '.'
RECURSIVE ForbiddenKeys(_)
ForbiddenKeys(v) ==
    IF v.t = "dict"
    THEN \E k \in DOMAIN v.l[1] :
            \/ \E i \in 1..Len(Chars(k)) : Chars(k)[i] \in {"$", "."}
            \/ ForbiddenKeys(v.l[1][k])
    ELSE IF v.t = "list" THEN \E i \in 1..Len(v.l) : ForbiddenKeys(v.l[i])
    ELSE FALSE

\* the driver can encode the value (a MongoDoc is no BSON type)
RECURSIVE Encodable(_)
Encodable(v) ==
    IF v.t = "dict" THEN \A k \in DOMAIN v.l[1] : Encodable(v.l[1][k])
    ELSE IF v.t = "list" THEN \A i \in 1..Len(v.l) : Encodable(v.l[i])
    ELSE v.t \notin {"MongoDoc", "NoValue", "NoDefault"}

\* collection.update({'_id': id}, {'$set': {key: value}}) with the value as
\* the caller passed it: the outcomes [err, docs].  A value that cannot be
\* encoded raises in the driver; a dict with '$' or '.' in a key is stored as
\* it is or refused, depending on the version of the server.
RawSet(coll, docs, id, key, value) ==
    IF ~Encodable(value) THEN {[err |-> "InvalidDocument", docs |-> docs]}
    ELSE {coll_update_set(coll, docs, id, [k \in {key} |-> value])}
         \cup (IF ForbiddenKeys(value)
               THEN {[err |-> "OperationFailure", docs |-> docs]} ELSE {})

\* update_single_field(key, value): self.__setattr__(key, value), then
\* collection.update(q, {'$set': {key: value}})
update_single_field(h, key, value) ==
    LET c == heap[h].ms
        coll == Collection(c)
        id == heap[h].doc["id"]
    IN
    IF key \notin DOMAIN Schema(c)
    THEN /\ ret' = Call("update_single_field", c, h, {}, "KeyError", id.n,
                        key, FALSE)
         /\ UNCHANGED <<db, heap, cache, cache_enabled, nextId, handed, unset,
                        proxies, threads>>
    ELSE LET v == _deref_if_needed(heap, Schema(c)[key], value) IN
         IF v.t = "Error"
         THEN /\ ret' = Call("update_single_field", c, h, {}, v.s, id.n, key,
                             FALSE)
              /\ UNCHANGED <<db, heap, cache, cache_enabled, nextId, handed,
                             unset, proxies, threads>>
         ELSE \E out \in RawSet(coll, db[coll], id, key, value) :
                /\ heap' = SetDoc(h, Put(heap[h].doc, key, v))
                /\ db' = [db EXCEPT ![coll] = out.docs]
                /\ proxies' = Unbind(proxies, h, {key})
                /\ ret' = Call("update_single_field", c, h, {}, out.err, id.n,
                               key, out.docs # db[coll])
                /\ UNCHANGED <<cache, cache_enabled, nextId, handed, unset,
                               threads>>

\* the stored documents after __delitem__'s $unset
MemoryOnly_DelStored(coll, docs, id, key) == [err |-> "", docs |-> docs]

DelStored(coll, docs, id, key) == coll_update_unset(coll, docs, id, key)

__delitem__(h, key) ==
    LET c == heap[h].ms
        coll == Collection(c)
    IN
    IF key \notin DOMAIN heap[h].doc
    THEN /\ ret' = Call("delitem", c, h, {}, "KeyError", heap[h].doc["id"].n,
                        key, FALSE)
         /\ UNCHANGED <<db, heap, cache, cache_enabled, nextId, handed, unset,
                        proxies, threads>>
    ELSE LET out == DelStored(coll, db[coll], heap[h].doc["id"], key) IN
         /\ heap' = SetDoc(h, Del(heap[h].doc, key))
         /\ db' = [db EXCEPT ![coll] = out.docs]
         /\ ret' = Call("delitem", c, h, {}, out.err, heap[h].doc["id"].n,
                        key, out.docs # db[coll])
         /\ unset' = IF out.err = "" THEN unset \cup {<<h, key>>} ELSE unset
         /\ UNCHANGED <<cache, cache_enabled, nextId, handed,
                        proxies, threads>>

-----------------------------------------------------------------------------
(* The calls a client makes *)

\* the classes enable_cache and disable_cache are called on, and those
\* clear_cache_and_init is called on
SwitchReceivers == {"MongoSchema"}
ResetReceivers == {"MongoSchema", "User"}

\* the entity types of the cache specification and of the document one
CacheEntities == {"User", "Farmer"}
DocEntities == {"WithOptionalField", "EmailEntry", "Account"}

Handles == 1..Len(heap)

\* create, get, find, list and remove on a class hierarchy, with the cache
\* switched and reset
Next ==
    \/ \E c \in CacheEntities : \E kwargs \in KwargsOver(FieldKeys(c)) :
          create(c, kwargs, MaxIds)
    \/ \E c \in CacheEntities : \E kwargs \in Queries(c) : get(c, kwargs)
    \/ \E c \in CacheEntities : \E kwargs \in Queries(c) : list(c, kwargs)
    \/ \E c \in CacheEntities : \E kwargs \in Queries(c) : remove(c, kwargs)
    \/ \E h \in Handles : doc_remove(h)
    \/ \E c \in SwitchReceivers : enable_cache(c)
    \/ \E c \in SwitchReceivers : disable_cache(c)
    \/ \E c \in ResetReceivers : clear_cache_and_init(c)

Spec == Init /\ [][Next]_vars

\* the MongoDoc methods on documents of validated schemas
NextDoc ==
    \/ \E c \in DocEntities : \E kwargs \in CreateInputs(c) :
          create(c, kwargs, MaxDocs)
    \/ \E h \in Handles : doc_remove(h)
    \/ \E h \in Handles : \E key \in InputKeys(heap[h].ms) :
          \E value \in Candidates(key) : __setattr__(h, key, value)
    \/ \E h \in Handles : save(h)
    \/ \E h \in Handles : \E raw_dict \in UpdateInputs(heap[h].ms) :
          update(h, raw_dict)
    \/ \E h \in Handles : reload(h)
    \/ \E h \in Handles : \E key \in FieldKeys(heap[h].ms) : __delitem__(h, key)

SpecDoc == Init /\ [][NextDoc]_vars

\* documents written before the schema gained a field (test_schema_change):
\* with and without 'lang'
RawDocs(c) ==
    {[k \in {"username"} |-> Str("a")], [k \in {"username"} |-> Str("b")],
     [k \in {"username", "lang"} |-> IF k = "lang" THEN Str("pt") ELSE Str("b")]}

MigrateEntities == {"UserAfterChanges"}

\* reads of documents that were stored before the schema changed
NextMigrate ==
    \/ \E c \in MigrateEntities : \E doc \in RawDocs(c) :
          insert_one(c, doc, MaxRaw)
    \/ \E c \in MigrateEntities : \E kwargs \in Queries(c) : get(c, kwargs)
    \/ \E c \in MigrateEntities : \E kwargs \in Queries(c) : find(c, kwargs)
    \/ \E c \in MigrateEntities : \E kwargs \in Queries(c) : list(c, kwargs)
    \/ \E h \in Handles : reload(h)
    \/ \E c \in ResetReceivers : clear_cache_and_init(c)

SpecMigrate == Init /\ [][NextMigrate]_vars

\* an Email and the User it refers to (test_set_mongoschema, test_reference,
\* test_reference_query)
UserInputs == {[k \in {"username"} |-> Str("a")], [k \in {"username"} |-> Str("b")]}

EmailInputs ==
    {[k \in {"user", "subject", "body"} |->
        IF k = "user" THEN v ELSE IF k = "subject" THEN Str("s") ELSE Str("t")] :
     v \in Candidates("user")}

\* the fields of class c that refer to a MongoSchema class
ReferenceKeys(c) ==
    {k \in FieldKeys(c) : ~Schema(c)[k].list /\ IsMongoSchema(Schema(c)[k].type)}

\* queries by an entity instance and by the logical id
RefQueries(c) ==
    UNION {{[k \in {key} |-> v] :
               v \in {x \in Candidates(key) : x.t = "MongoDoc"}} :
           key \in ReferenceKeys(c)}
    \cup {[k \in {"id"} |-> v] : v \in Candidates("id")}

NextRef ==
    \/ \E kwargs \in UserInputs : create("User", kwargs, MaxRefDocs)
    \/ \E kwargs \in EmailInputs : create("Email", kwargs, MaxRefDocs)
    \/ \E h \in Handles : \E key \in ReferenceKeys(heap[h].ms) :
          \E value \in Candidates(key) : __setattr__(h, key, value)
    \/ \E h \in Handles : save(h)
    \/ \E h \in Handles : \E key \in ReferenceKeys(heap[h].ms) : deref(h, key)
    \/ \E kwargs \in RefQueries("Email") : get("Email", kwargs)
    \/ \E kwargs \in RefQueries("Email") : find("Email", kwargs)
    \/ \E kwargs \in RefQueries("Email") : list("Email", kwargs)
    \/ \E c \in SwitchReceivers : disable_cache(c)
    \/ \E c \in SwitchReceivers : enable_cache(c)

SpecRef == Init /\ [][NextRef]_vars

\* an Email whose User is removed, and reads of the reference afterwards
NextDangling ==
    \/ \E kwargs \in UserInputs : create("User", kwargs, MaxRefDocs)
    \/ \E kwargs \in EmailInputs : create("Email", kwargs, MaxRefDocs)
    \/ \E h \in {x \in Handles : heap[x].ms = "User"} : doc_remove(h)
    \/ \E h \in Handles : \E key \in ReferenceKeys(heap[h].ms) : deref(h, key)
    \/ \E c \in ResetReceivers : clear_cache_and_init(c)

SpecDangling == Init /\ [][NextDangling]_vars

\* MongoDocs of one document got through create, get, find and list, changed
\* and saved, with the cache switched
NextCoherence ==
    \/ \E kwargs \in UserInputs : create("User", kwargs, MaxIds)
    \/ \E kwargs \in Queries("User") \cup MixedQueries("User") :
          get("User", kwargs)
    \/ \E kwargs \in Queries("User") : find("User", kwargs)
    \/ \E kwargs \in Queries("User") : list("User", kwargs)
    \/ \E h \in Handles : \E value \in UserInputs :
          __setattr__(h, "username", value["username"])
    \/ \E h \in Handles : save(h)
    \/ \E c \in SwitchReceivers : disable_cache(c)
    \/ \E c \in SwitchReceivers : enable_cache(c)

SpecCoherence == Init /\ [][NextCoherence]_vars

\* SchemaWithList.create(users=[...], numbers=[...]) (test_list_definition)
ListInputs ==
    {[k \in {"users", "numbers"} |->
        IF k = "users" THEN us ELSE List(<<Num(1)>>)] :
     us \in Candidates("users")}

\* the objects passed to append and remove
Objects == {x \in Candidates("user") : x.t # "None"}

Proxies == 1..Len(proxies)

\* lists of references, read and changed through MongoDocRefList
NextList ==
    \/ \E kwargs \in UserInputs : create("User", kwargs, MaxListDocs)
    \/ \E kwargs \in ListInputs : create("SchemaWithList", kwargs, MaxListDocs)
    \/ \E h \in Handles : doc_remove(h)
    \/ \E h \in {x \in Handles : heap[x].ms = "SchemaWithList"} :
          \E value \in Candidates("users") : __setattr__(h, "users", value)
    \/ \E h \in {x \in Handles : heap[x].ms = "SchemaWithList"} :
          deref_list(h, "users")
    \/ \E p \in {x \in Proxies : /\ Len(reflist(x)) < MaxLen
                                  /\ Len(proxies[x].items) < MaxLen} :
          \E obj \in Objects : reflist_append(p, obj)
    \/ \E p \in Proxies : \E obj \in Objects : reflist_remove(p, obj)
    \/ \E p \in Proxies : \E index \in 0..MaxLen : reflist_pop(p, index)
    \/ \E h \in Handles : save(h)

SpecList == Init /\ [][NextList]_vars

\* the keys of the dicts passed in: with '.', with '$', an escape token, and
\* a key the codec leaves alone
CodecKeys == {"k", "a.b", "$", ".", "&period;"}
Leaves == {Str("a.b"), Num(1)}

\* the dicts of at most MaxKeys keys of CodecKeys over the values of a set
DictsOver(values) ==
    {Dict(d) : d \in UNION {[ks -> values] :
                              ks \in {x \in SUBSET CodecKeys :
                                         Cardinality(x) <= MaxKeys}}}

OneKey(dicts) == {v \in dicts : Cardinality(DOMAIN v.l[1]) = 1}

\* dicts of scalars, dicts of dicts, and lists of dicts
CodecInputs ==
    DictsOver(Leaves)
    \cup {Dict([x \in {k} |-> v]) : k \in CodecKeys,
                                    v \in OneKey(DictsOver(Leaves))}
    \cup {Dict([x \in {k} |-> List(<<v>>)]) :
             k \in CodecKeys, v \in OneKey(DictsOver(Leaves))}

\* heap[1]: a MongoDoc that holds 'data'; heap[2]: the copy of its doc that
\* _writedoc rewrites for the collection and _fromdb rewrites back
InitCodec ==
    /\ db = [coll \in Collections |-> {}]
    /\ \E data \in CodecInputs :
          heap = [i \in 1..2 |->
                    [ms |-> "SchemaWithDict",
                     doc |-> [k \in {"data"} |-> data]]]
    /\ cache = [c \in Classes |-> EmptyCache]
    /\ cache_enabled = [c \in Classes |->
                           IF c = "MongoSchema" THEN "on" ELSE "inherit"]
    /\ nextId = 1
    /\ ret = [op |-> "init", cls |-> "SchemaWithDict", h |-> 0, hs |-> {},
              err |-> "", oid |-> 0, key |-> "", wrote |-> FALSE,
              follows |-> FALSE, discarded |-> FALSE]
    /\ handed = [c \in Classes |-> {}]
    /\ unset = {}
    /\ proxies = <<>>
    /\ threads = [t \in Requests |-> Idle]

\* one run of _fix_dict_keys (fordb) or _unfix_dict_keys on heap[2].doc
fix_keys(fordb, op) ==
    /\ IF KeysCollide(Dict(heap[2].doc), fordb)
       THEN /\ heap' = heap
            /\ ret' = Call(op, "SchemaWithDict", 2, {}, "RuntimeError", 0, "",
                           FALSE)
       ELSE /\ heap' = SetDoc(2, FixDoc(heap[2].doc, fordb))
            /\ ret' = Call(op, "SchemaWithDict", 2, {}, "", 0, "", FALSE)
    /\ UNCHANGED <<db, cache, cache_enabled, nextId, handed, unset, proxies,
                   threads>>

NextCodec ==
    \/ ret.op = "init" /\ fix_keys(TRUE, "_fix_dict_keys")
    \/ ret.op = "_fix_dict_keys" /\ ret.err = ""
          /\ fix_keys(FALSE, "_unfix_dict_keys")

SpecCodec == InitCodec /\ [][NextCodec]_vars

\* SchemaWithDict.create(data=..., list_data=...) (test_schema_with_dict)
DictInputs ==
    {[k \in {"data", "list_data"} |->
        IF k = "data" THEN v ELSE List(<<Dict([x \in {"a.b"} |-> Str("v")])>>)] :
     v \in Candidates("data")}

DictEntities == {"SchemaWithDict", "EmailEntry"}

\* documents with dict-valued fields and with a validated field, written by
\* create, save, update and update_single_field
NextDict ==
    \/ \E kwargs \in DictInputs : create("SchemaWithDict", kwargs, MaxDictDocs)
    \/ \E kwargs \in KwargsOver(FieldKeys("EmailEntry")) :
          create("EmailEntry", kwargs, MaxDictDocs)
    \/ \E h \in Handles : \E key \in {"data", "email"} :
          \E value \in Candidates(key) : __setattr__(h, key, value)
    \/ \E h \in Handles : save(h)
    \/ \E h \in Handles : \E key \in FieldKeys(heap[h].ms) :
          \E value \in Candidates(key) :
             update(h, [k \in {key} |-> value])
    \/ \E h \in Handles : \E key \in {"data", "email"} :
          \E value \in Candidates(key) : update_single_field(h, key, value)
    \/ \E h \in Handles : reload(h)

SpecDict == Init /\ [][NextDict]_vars

\* classes whose fields carry a default or a default_func
DefaultEntities == {"UserAfterChanges", "Session"}

\* create with and without the fields that carry a default, and the
\* MongoDoc methods on the result
NextDefault ==
    \/ \E c \in DefaultEntities : \E kwargs \in KwargsOver(FieldKeys(c)) :
          create(c, kwargs, MaxDocs)
    \/ \E h \in Handles : \E key \in FieldKeys(heap[h].ms) :
          \E value \in Candidates(key) : __setattr__(h, key, value)
    \/ \E h \in Handles : save(h)
    \/ \E h \in Handles : reload(h)
    \/ \E c \in DefaultEntities : \E kwargs \in Queries(c) : get(c, kwargs)

SpecDefault == Init /\ [][NextDefault]_vars

-----------------------------------------------------------------------------
(* Concurrent requests: create and get of one class, served by threads    *)
(* that can be switched at every call of the collection.  No lock guards  *)
(* cls.cache.                                                              *)

\* request t is at position pc of call op on class c, holding kwargs and doc
At(t, pc, op, c, kwargs, doc) ==
    [threads EXCEPT ![t] = [pc |-> pc, op |-> op, cls |-> c,
                            kwargs |-> kwargs, doc |-> doc, stack |-> <<>>]]

\* create, up to and with cls.collection.insert(doc) inside _writedoc
create_insert(t, c, kwargs, limit) ==
    LET fresh == Oid(nextId)
        filled == _fill_defaults(c, kwargs, fresh)
        e1 == _basic_schema_validation(c, filled)
        fixed == _fix_references(heap, c, filled)
        coll == Collection(c)
        fail(e) == /\ ret' = Call("create", c, 0, {}, e, 0, "", FALSE)
                   /\ UNCHANGED <<db, heap, cache, cache_enabled, nextId,
                                  handed, unset, proxies, threads>>
    IN
    /\ threads[t].pc = "idle"
    /\ "id" \in DOMAIN kwargs \/ nextId <= limit
    /\ IF e1 # "" THEN fail(e1)
       ELSE IF fixed.err # "" THEN fail(fixed.err)
       ELSE \E out \in _writedoc(c, db[coll], fixed.doc, "insert", fresh) :
              IF out.err # ""
              THEN /\ ret' = Call("create", c, 0, {}, out.err, 0, "",
                                  out.docs # db[coll])
                   /\ db' = [db EXCEPT ![coll] = out.docs]
                   /\ UNCHANGED <<heap, cache, cache_enabled, nextId, handed,
                                  unset, proxies, threads>>
              ELSE /\ db' = [db EXCEPT ![coll] = out.docs]
                   /\ nextId' = IF "id" \in DOMAIN kwargs THEN nextId
                                ELSE nextId + 1
                   /\ threads' = At(t, "inserted", "create", c, kwargs,
                                    out.doc)
                   /\ UNCHANGED <<heap, cache, cache_enabled, ret, handed,
                                  unset, proxies>>

\* create, after the insert: mdoc = cls.doc_class(doc, cls) and
\* cls.add_to_cache(mdoc)
create_return(t) ==
    LET c == threads[t].cls
        doc == threads[t].doc
        h == Len(heap) + 1
    IN
    /\ threads[t].pc = "inserted"
    /\ Len(heap) < MaxWrappers
    /\ heap' = Append(heap, [ms |-> c, doc |-> doc])
    /\ cache' = IF Enabled(c) THEN add_to_cache(cache, c, doc["id"].n, h)
                ELSE cache
    /\ ret' = Call("create", c, h, {h}, "", doc["id"].n, "", TRUE)
    /\ handed' = Hand(c, {h}, "create")
    /\ threads' = [threads EXCEPT ![t] = Idle]
    /\ UNCHANGED <<db, cache_enabled, nextId, unset, proxies>>

\* get, up to cls.collection.find_one: "if 'id' in kwargs and kwargs['id']
\* in cls.cache: return cls.cache[kwargs['id']]"
get_check(t, c, kwargs) ==
    LET query == _mongodoc_to_id(heap, kwargs)
        first == IF "id" \in DOMAIN query
                 THEN CacheLookup(cache_enabled, cache, c, query["id"].n)
                 ELSE 0
        qoid == IF "id" \in DOMAIN query THEN query["id"].n ELSE 0
    IN
    /\ threads[t].pc = "idle"
    /\ IF first # 0
       THEN /\ heap' = heap
            /\ ret' = Call("get", c, first, {first}, "", qoid, "", FALSE)
            /\ handed' = Hand(c, {first}, "get")
            /\ UNCHANGED <<db, cache, cache_enabled, nextId, unset,
                           proxies, threads>>
       ELSE /\ threads' = At(t, "checked", "get", c, query, EmptyDoc)
            /\ UNCHANGED <<db, heap, cache, cache_enabled, nextId, ret,
                           handed, unset, proxies>>

\* get: doc = cls.collection.find_one(kwargs)
get_find_one(t) ==
    LET c == threads[t].cls
        query == threads[t].kwargs
        qoid == IF "id" \in DOMAIN query THEN query["id"].n ELSE 0
        found == coll_find(db[Collection(c)],
                           _fordb_fix_id(query, TRUE, Oid(nextId)))
    IN
    /\ threads[t].pc = "checked"
    /\ IF found = {}
       THEN /\ ret' = Call("get", c, 0, {}, "", qoid, "", FALSE)
            /\ threads' = [threads EXCEPT ![t] = Idle]
            /\ UNCHANGED <<db, heap, cache, cache_enabled, nextId, handed,
                           unset, proxies>>
       ELSE \E doc \in found :
              /\ threads' = At(t, "found", "get", c, query, doc)
              /\ UNCHANGED <<db, heap, cache, cache_enabled, nextId, ret,
                             handed, unset, proxies>>

\* get, after find_one: "if doc['_id'] in cls.cache: mdoc = cls.cache[...]
\* else: mdoc = cls._fromdb(doc); cls.add_to_cache(mdoc)"
get_return(t) ==
    LET c == threads[t].cls
        query == threads[t].kwargs
        doc == threads[t].doc
        qoid == IF "id" \in DOMAIN query THEN query["id"].n ELSE 0
        hit == CacheLookup(cache_enabled, cache, c, doc["_id"].n)
        h == Len(heap) + 1
    IN
    /\ threads[t].pc = "found"
    /\ IF hit # 0
       THEN /\ heap' = heap
            /\ ret' = Call("get", c, hit, {hit}, "", qoid, "", FALSE)
            /\ handed' = Hand(c, {hit}, "get")
            /\ threads' = [threads EXCEPT ![t] = Idle]
            /\ UNCHANGED <<db, cache, cache_enabled, nextId, unset, proxies>>
       ELSE /\ Len(heap) < MaxWrappers
            /\ heap' = Append(heap,
                  [ms |-> c, doc |-> _fromdb(c, doc, Oid(nextId))])
            /\ cache' = IF Enabled(c)
                        THEN add_to_cache(cache, c, doc["_id"].n, h)
                        ELSE cache
            /\ ret' = Call("get", c, h, {h}, "", qoid, "", FALSE)
            /\ handed' = Hand(c, {h}, "get")
            /\ threads' = [threads EXCEPT ![t] = Idle]
            /\ UNCHANGED <<db, cache_enabled, nextId, unset, proxies>>

ConcEntities == {"User"}

NextConc ==
    \/ \E t \in Requests : \E c \in ConcEntities : \E kwargs \in UserInputs :
          create_insert(t, c, kwargs, MaxIds)
    \/ \E t \in Requests : create_return(t)
    \/ \E t \in Requests : \E c \in ConcEntities : \E kwargs \in Queries(c) :
          get_check(t, c, kwargs)
    \/ \E t \in Requests : get_find_one(t)
    \/ \E t \in Requests : get_return(t)

SpecConc == Init /\ [][NextConc]_vars

-----------------------------------------------------------------------------
(* MongoDoc.to_dict, one nested call after the other.  The stack of a      *)
(* request holds a frame for every to_dict call that has not returned:     *)
(* the MongoDoc it runs on and the reference keys it has still to follow.  *)

\* the class attribute todict_follow_references: False in MongoSchema, set
\* to True by the client on the classes whose references are to be nested
todict_follow_references(c) == c \in {"Referencer", "Referenced", "Email"}

\* the keys of the doc of h for which to_dict calls getattr(self, key)
FollowKeys(hp, h) ==
    {k \in DOMAIN hp[h].doc :
        /\ ~Schema(hp[h].ms)[k].list
        /\ IsMongoSchema(Schema(hp[h].ms)[k].type)}

\* the to_dict call of request t on MongoDoc h ends, raising err ("": it
\* returns the dict)
ToDictEnds(t, h, err) ==
    /\ ret' = Call("to_dict", heap[h].ms, h, {}, err, heap[h].doc["id"].n, "",
                   FALSE)
    /\ threads' = [threads EXCEPT ![t] = Idle]

\* mdoc.to_dict(), called by request t: without todict_follow_references a
\* deep copy of the doc, else the loop over the keys of the doc
to_dict(t, h) ==
    /\ threads[t].pc = "idle"
    /\ IF ~todict_follow_references(heap[h].ms)
       THEN ToDictEnds(t, h, "")
       ELSE /\ threads' = [threads EXCEPT ![t] =
                   [Idle EXCEPT !.pc = "to_dict", !.op = "to_dict",
                                !.cls = heap[h].ms,
                                !.stack = <<[h |-> h,
                                             keys |-> FollowKeys(heap, h)]>>]]
            /\ ret' = ret
    /\ UNCHANGED <<db, heap, cache, cache_enabled, nextId, handed, unset,
                   proxies>>

\* the innermost to_dict call of request t goes on: it returns when no
\* reference key is left, else "copy_doc[key] = getattr(self, key).to_dict()"
\* for the next one
to_dict_step(t) ==
    LET stack == threads[t].stack
        depth == Len(stack)
        top == stack[depth]
        first == stack[1].h
        quiet == UNCHANGED <<db, heap, cache, cache_enabled, nextId, handed,
                             unset, proxies>>
    IN
    /\ threads[t].pc = "to_dict"
    /\ IF top.keys = {}
       THEN /\ quiet
            /\ IF depth = 1 THEN ToDictEnds(t, first, "")
               ELSE /\ threads' = [threads EXCEPT ![t].stack =
                                     SubSeq(stack, 1, depth - 1)]
                    /\ ret' = ret
       ELSE \E key \in top.keys :
            \E got \in {GetEach(heap, cache, Schema(heap[top.h].ms)[key].type,
                                <<heap[top.h].doc[key]>>, 1)} :
              LET type == Schema(heap[top.h].ms)[key].type
                  g == got.items[1]
                  rest == [stack EXCEPT ![depth].keys = @ \ {key}]
              IN
              /\ Len(got.heap) <= MaxWrappers
              /\ heap' = got.heap
              /\ cache' = got.cache
              /\ handed' = Hand(type, {g} \ {0}, "get")
              /\ UNCHANGED <<db, cache_enabled, nextId, unset, proxies>>
              /\ IF g = 0
                 THEN \* None has no to_dict
                      ToDictEnds(t, first, "AttributeError")
                 ELSE IF ~todict_follow_references(type)
                 THEN /\ threads' = [threads EXCEPT ![t].stack = rest]
                      /\ ret' = ret
                 ELSE IF depth >= MaxDepth
                 THEN \* maximum recursion depth exceeded
                      ToDictEnds(t, first, "RuntimeError")
                 ELSE /\ threads' = [threads EXCEPT ![t].stack =
                             Append(rest,
                                    [h |-> g,
                                     keys |-> FollowKeys(got.heap, g)])]
                      /\ ret' = ret

ToDictEntities == {"Referenced", "Referencer"}

\* two documents that refer to each other (test_lazy_loading), serialized
NextToDict ==
    \/ \E c \in ToDictEntities : \E kwargs \in KwargsOver(FieldKeys(c)) :
          create(c, kwargs, MaxDocs)
    \/ \E h \in Handles : \E key \in ReferenceKeys(heap[h].ms) :
          \E value \in Candidates(key) : __setattr__(h, key, value)
    \/ \E h \in Handles : save(h)
    \/ \E t \in Requests : \E h \in Handles : to_dict(t, h)
    \/ \E t \in Requests : to_dict_step(t)

\* a to_dict call that has started goes on until it ends
SpecToDict ==
    /\ Init /\ [][NextToDict]_vars
    /\ \A t \in Requests : WF_vars(to_dict_step(t))

-----------------------------------------------------------------------------
(* Properties of the identity cache (specification Spec) *)

\* C1: with the cache of a type enabled and between two resets, every
\* create() and get() that hands out a MongoDoc for the same stored id hands
\* out the same object, and that object is the one the cache of the type holds
\* for the id.
C1_IdentityInvariant ==
    \A c \in Entities : \A e1 \in handed[c] :
        e1.via \in {"create", "get"} =>
            /\ e1.oid \in DOMAIN cache[c]
            /\ cache[c][e1.oid] = e1.h
            /\ \A e2 \in handed[c] :
                  e2.via \in {"create", "get"} /\ e2.oid = e1.oid
                      => e2.h = e1.h

\* a get() by a field other than id has returned the object create() returned
C1_GetReturnsCreated ==
    /\ ret.op = "get" /\ ret.oid = 0 /\ ret.h # 0
    /\ Enabled(ret.cls)
    /\ \E e \in handed[ret.cls] : e.via = "create" /\ e.h = ret.h

\* C2 (as the documentation states it): every MongoDoc handed out for a
\* stored id with the cache enabled, by create(), get(), find() or list(), is
\* the one object the cache holds for the id.
C2_OneLiveWrapper ==
    \A c \in Entities : \A e1 \in handed[c] :
        /\ e1.oid \in DOMAIN cache[c]
        /\ cache[c][e1.oid] = e1.h
        /\ \A e2 \in handed[c] : e2.oid = e1.oid => e2.h = e1.h

\* C3: with the cache of a type disabled, create() and get() leave every
\* cache as it was and return a MongoDoc object that did not exist before the
\* call; a get(id=x) that finds the document returns one that carries id x.
C3_DisabledCacheFresh ==
    [][(ret'.op \in {"create", "get"} /\ ~Enabled(ret'.cls))
          => /\ cache' = cache
             /\ ret'.h # 0 =>
                   /\ ret'.h \notin DOMAIN heap
                   /\ ret'.h \in DOMAIN heap'
                   /\ heap'[ret'.h].ms = ret'.cls
                   /\ ret'.oid # 0 => heap'[ret'.h].doc["id"] = Oid(ret'.oid)
      ]_vars

\* with the cache disabled, get(id=x) has returned a second object for the
\* document another MongoDoc already wraps, and the cache has no entry for x
C3_SecondWrapper ==
    /\ ret.op = "get" /\ ret.oid # 0 /\ ret.h # 0
    /\ ~Enabled(ret.cls)
    /\ ret.oid \notin DOMAIN cache[ret.cls]
    /\ \E h \in DOMAIN heap :
          /\ h # ret.h
          /\ heap[h].ms = ret.cls
          /\ heap[h].doc["id"] = Oid(ret.oid)

\* C4 (as the documentation states it): after remove(id=x) the cache of the
\* type has no entry for x, and a get(id=x) that follows returns None,
\* whatever create, get, remove, enable_cache and disable_cache calls came
\* before.
C4_RemoveEvicts ==
    [][/\ (ret'.op \in {"remove", "doc_remove"} /\ ret'.oid # 0)
             => ret'.oid \notin DOMAIN cache'[ret'.cls]
       /\ (/\ ret.op \in {"remove", "doc_remove"} /\ ret.oid # 0
           /\ ret'.op = "get" /\ ret'.cls = ret.cls /\ ret'.oid = ret.oid)
             => ret'.h = 0
      ]_vars

\* C5 (as the documentation states it): clear_cache_and_init() on the root
\* empties the cache of every class and leaves the stored documents alone,
\* and a get(id=x) that follows and finds the document puts x into the cache
\* of its type again.
C5_ResetThenRecache ==
    [][/\ (ret'.op = "clear_cache_and_init" /\ ret'.cls = "MongoSchema")
             => /\ \A d \in Classes : cache'[d] = EmptyCache
                /\ db' = db
       /\ (/\ ret.op = "clear_cache_and_init"
           /\ ret'.op = "get" /\ ret'.oid # 0 /\ ret'.h # 0)
             => /\ ret'.oid \in DOMAIN cache'[ret'.cls]
                /\ cache'[ret'.cls][ret'.oid] = ret'.h
      ]_vars

\* C5 (amended): clear_cache_and_init() on a class empties the cache of that
\* class and of every class derived from it, directly or not (every class,
\* when called on the root), and leaves the stored documents alone; a
\* get(id=x) that follows and finds the document puts x into the cache of
\* its type again when the cache of the type is enabled, and leaves the cache
\* empty when it is disabled.
C5_ResetThenRecacheIfEnabled ==
    [][/\ ret'.op = "clear_cache_and_init"
             => /\ \A d \in Classes :
                      (d = ret'.cls \/ Base(d) = ret'.cls
                                    \/ Base(Base(d)) = ret'.cls)
                          => cache'[d] = EmptyCache
                /\ db' = db
       /\ (/\ ret.op = "clear_cache_and_init"
           /\ ret'.op = "get" /\ ret'.oid # 0 /\ ret'.h # 0)
             => IF Enabled(ret'.cls)
                THEN /\ ret'.oid \in DOMAIN cache'[ret'.cls]
                     /\ cache'[ret'.cls][ret'.oid] = ret'.h
                     /\ db' = db
                ELSE /\ cache' = cache
                     /\ db' = db
      ]_vars

\* a reset on User emptied the cache of Farmer, and the get(id=x) after it
\* found the Farmer document and cached a new object for it
C5_RecachedAfterReset ==
    /\ ret.op = "get" /\ ret.follows /\ ret.oid # 0 /\ ret.h # 0
    /\ ret.cls = "Farmer"
    /\ Enabled(ret.cls)
    /\ cache[ret.cls] = [x \in {ret.oid} |-> ret.h]
    /\ \E h \in DOMAIN heap :
          /\ h # ret.h
          /\ heap[h].ms = ret.cls
          /\ heap[h].doc["id"] = Oid(ret.oid)

-----------------------------------------------------------------------------
(* Properties of validated writes and of MongoDoc (specification SpecDoc) *)

\* C6: a create(), save() or update() that raises a validation error (an
\* unknown key, a missing required field, a value of the wrong type, a value
\* outside allowed_vals, a value the regular expression rejects) leaves every
\* collection and every cache exactly as it was before the call.
C6_FailedValidationWritesNothing ==
    [][(/\ ret'.op \in {"create", "save", "update"}
        /\ ret'.err \in {"ValidationError", "RequiredNotFoundException",
                         "KeyError"})
          => /\ db' = db
             /\ cache' = cache
             /\ ~ret'.wrote
      ]_vars

\* an update() was rejected with a ValidationError, and the stored document
\* of the MongoDoc does not carry the rejected value
C6_RejectedUpdate ==
    /\ ret.op = "update" /\ ret.err = "ValidationError"
    /\ \E s \in StoredOf(db[Collection(ret.cls)], heap[ret.h].doc["id"]) :
          \E k \in FieldKeys(ret.cls) :
              /\ k \in DOMAIN heap[ret.h].doc
              /\ (k \notin DOMAIN s \/ s[k] # heap[ret.h].doc[k])

\* C7 (as the documentation states it): a save() or update() that raises
\* leaves the doc of the MongoDoc exactly as it was before the call.
C7_FailedUpdateKeepsDoc ==
    [][(/\ ret'.op \in {"save", "update"}
        /\ ret'.err \in {"ValidationError", "RequiredNotFoundException",
                         "KeyError"})
          => heap'[ret'.h].doc = heap[ret'.h].doc
      ]_vars

\* C8: after a save() or update() that returns, the stored document with the
\* id of the MongoDoc, when there is one, holds under the encoded key of every
\* field of the MongoDoc's doc the value the doc holds ('id' being stored as
\* '_id'), and every other stored document is as it was before the call.
C8_SaveStoresDoc ==
    [][(ret'.op \in {"save", "update"} /\ ret'.err = "")
          => LET doc == heap'[ret'.h].doc
                 coll == Collection(ret'.cls)
             IN /\ \A s \in StoredOf(db'[coll], doc["id"]) :
                      \A k \in (DOMAIN doc) \ {"id"} :
                          /\ FixKey(k, TRUE) \in DOMAIN s
                          /\ s[FixKey(k, TRUE)] = doc[k]
                /\ {s \in db'[coll] : s["_id"] # doc["id"]}
                      = {s \in db[coll] : s["_id"] # doc["id"]}
                /\ \A other \in Collections \ {coll} : db'[other] = db[other]
      ]_vars

\* a save() or update() has changed the stored document of its MongoDoc,
\* which now holds every field of the doc
C8_StoredAfterSave ==
    /\ ret.op \in {"save", "update"} /\ ret.err = "" /\ ret.wrote
    /\ \E s \in StoredOf(db[Collection(ret.cls)], heap[ret.h].doc["id"]) :
          /\ FieldKeys(ret.cls) \cap DOMAIN heap[ret.h].doc # {}
          /\ \A k \in (DOMAIN heap[ret.h].doc) \ {"id"} :
                k \in DOMAIN s /\ s[k] = heap[ret.h].doc[k]

\* C9: a reload() that returns leaves in the doc of the MongoDoc the stored
\* document as a read hands it out ('_id' as 'id', every stored field, the
\* schema default for a missing field that has one) and nothing else; the
\* MongoDoc is the same object of the same class, no object is created, and
\* the caches and the stored documents are as they were.
C9_ReloadReplacesDoc ==
    [][(ret'.op = "reload" /\ ret'.err = "")
          => LET h == ret'.h
                 c == heap[h].ms
                 new == heap'[h].doc
             IN /\ \E s \in StoredOf(db[Collection(c)], heap[h].doc["id"]) :
                      /\ new["id"] = s["_id"]
                      /\ \A k \in (DOMAIN s) \ {"_id"} :
                            /\ FixKey(k, FALSE) \in DOMAIN new
                            /\ new[FixKey(k, FALSE)] = s[k]
                      /\ \A k \in (DOMAIN new) \ {"id"} :
                            FixKey(k, TRUE) \notin DOMAIN s
                               => /\ k \in DOMAIN Schema(c)
                                  /\ Schema(c)[k].default # NoDefault
                                  /\ new[k] = Schema(c)[k].default
                /\ Len(heap') = Len(heap)
                /\ heap'[h].ms = c
                /\ \A g \in DOMAIN heap : g # h => heap'[g] = heap[g]
                /\ cache' = cache
                /\ db' = db
      ]_vars

\* a reload() has returned on a MongoDoc that the cache of its class holds,
\* and left its doc equal to a stored document that its doc differed from
\* before the call
C9_EditDiscarded ==
    /\ ret.op = "reload" /\ ret.err = "" /\ ret.discarded
    /\ ret.oid \in DOMAIN cache[ret.cls]
    /\ cache[ret.cls][ret.oid] = ret.h
    /\ \E s \in StoredOf(db[Collection(ret.cls)], heap[ret.h].doc["id"]) :
          \A k \in (DOMAIN s) \ {"_id"} : heap[ret.h].doc[k] = s[k]

\* C10 (as the documentation states it): del doc[key] removes the key from
\* the doc of the MongoDoc and from its stored document; reading an optional
\* field afterwards yields NoValue, and so does reading it after a reload()
\* that follows; once the field is set again, a save() stores it.
C10_DelThenNoValue ==
    [][/\ (ret'.op = "delitem" /\ ret'.err = "")
             => LET h == ret'.h
                    c == heap[h].ms
                IN /\ ret'.key \notin DOMAIN heap'[h].doc
                   /\ \A s \in StoredOf(db'[Collection(c)], heap'[h].doc["id"]) :
                         ret'.key \notin DOMAIN s
                   /\ ~Schema(c)[ret'.key].required
                         => __getattr__(c, heap'[h].doc, ret'.key) = NoValue
       /\ (/\ ret.op = "delitem" /\ ret.err = ""
           /\ ret'.op = "reload" /\ ret'.h = ret.h /\ ret'.err = ""
           /\ ~Schema(ret.cls)[ret.key].required)
             => __getattr__(ret.cls, heap'[ret.h].doc, ret.key) = NoValue
       /\ (ret'.op = "save" /\ ret'.err = "")
             => \A k \in DOMAIN heap'[ret'.h].doc :
                   <<ret'.h, k>> \in unset
                      => /\ <<ret'.h, k>> \notin unset'
                         /\ \A s \in StoredOf(db'[Collection(ret'.cls)],
                                              heap'[ret'.h].doc["id"]) :
                               k \in DOMAIN s /\ s[k] = heap'[ret'.h].doc[k]
      ]_vars

\* C10 (amended): del doc[key] removes the key from the doc of the MongoDoc
\* and from its stored document; reading an optional field afterwards yields
\* NoValue; after a reload() that follows, reading it yields NoValue when the
\* schema gives the field no default and the schema default when it gives
\* one, the stored document still being without the key; once the field is
\* set again, a save() stores it.
C10_DelThenNoValueOrDefault ==
    [][/\ (ret'.op = "delitem" /\ ret'.err = "")
             => LET h == ret'.h
                    c == heap[h].ms
                IN /\ ret'.key \notin DOMAIN heap'[h].doc
                   /\ \A s \in StoredOf(db'[Collection(c)], heap'[h].doc["id"]) :
                         ret'.key \notin DOMAIN s
                   /\ ~Schema(c)[ret'.key].required
                         => __getattr__(c, heap'[h].doc, ret'.key) = NoValue
       /\ (/\ ret.op = "delitem" /\ ret.err = ""
           /\ ret'.op = "reload" /\ ret'.h = ret.h /\ ret'.err = ""
           /\ ~Schema(ret.cls)[ret.key].required)
             => /\ __getattr__(ret.cls, heap'[ret.h].doc, ret.key)
                      = IF Schema(ret.cls)[ret.key].default = NoDefault
                        THEN NoValue
                        ELSE Schema(ret.cls)[ret.key].default
                /\ \A s \in StoredOf(db'[Collection(ret.cls)],
                                     heap'[ret.h].doc["id"]) :
                      ret.key \notin DOMAIN s
       /\ (ret'.op = "save" /\ ret'.err = "")
             => \A k \in DOMAIN heap'[ret'.h].doc :
                   <<ret'.h, k>> \in unset
                      => /\ <<ret'.h, k>> \notin unset'
                         /\ \A s \in StoredOf(db'[Collection(ret'.cls)],
                                              heap'[ret'.h].doc["id"]) :
                               k \in DOMAIN s /\ s[k] = heap'[ret'.h].doc[k]
      ]_vars

\* a reload() directly after del doc['role'] on an Account: the stored
\* document has no 'role', and reading role yields the schema default
C10_DefaultAfterReload ==
    /\ ret.op = "reload" /\ ret.err = "" /\ ret.follows
    /\ ret.cls = "Account"
    /\ __getattr__(ret.cls, heap[ret.h].doc, "role") = Str("guest")
    /\ \E s \in StoredOf(db[Collection(ret.cls)], heap[ret.h].doc["id"]) :
          "role" \notin DOMAIN s

-----------------------------------------------------------------------------
(* Properties of the schema defaults (specification SpecMigrate) *)

\* the MongoDocs a call returned or ran on
Returned(r) == r.hs \cup (IF r.h # 0 THEN {r.h} ELSE {})

\* C11: a read through get, find, list or reload of a stored document that
\* lacks a field carrying a schema default yields a MongoDoc whose field
\* equals the schema default, and the read changes no stored document (the
\* stored document stays without the field).
C11_ReadFillsDefault ==
    [][(ret'.op \in {"get", "find", "list", "reload"} /\ ret'.err = "")
        => /\ db' = db
           /\ \A h \in Returned(ret') :
                \A s \in StoredOf(db'[Collection(heap'[h].ms)],
                                  heap'[h].doc["id"]) :
                  \A F \in DOMAIN Schema(heap'[h].ms) :
                    (has_default(Schema(heap'[h].ms)[F]) /\ F \notin DOMAIN s)
                        => /\ F \in DOMAIN heap'[h].doc
                           /\ heap'[h].doc[F] = Schema(heap'[h].ms)[F].default
      ]_vars

\* a reload has run on a MongoDoc of a document stored without 'lang', and
\* the MongoDoc holds the default 'en'
C11_DefaultOnReload ==
    /\ ret.op = "reload" /\ ret.err = "" /\ ret.cls = "UserAfterChanges"
    /\ \E s \in StoredOf(db["user_after_changes"], heap[ret.h].doc["id"]) :
          "lang" \notin DOMAIN s
    /\ heap[ret.h].doc["lang"] = Str("en")

-----------------------------------------------------------------------------
(* Properties of references (specification SpecRef) *)

C17_ListNormalizesQuery ==
    [][\A kwargs \in RefQueries("Email") :
          (list("Email", kwargs) \/ find("Email", kwargs))
              => {heap'[r].doc["id"] : r \in ret'.hs}
                 = {d["_id"] :
                      d \in coll_find(db["email"],
                               _fordb_fix_id(_mongodoc_to_id(heap, kwargs),
                                             TRUE, Oid(nextId)))}
      ]_vars

-----------------------------------------------------------------------------
(* Properties of lists of references (specification SpecList) *)

\* MongoDocRefList p of ps and its reflist in heap hp: the same length, and
\* the id of the i-th MongoDoc is the i-th id
InStep(hp, ps, p) ==
    LET items == ps[p].items
        ids == hp[ps[p].owner].doc[ps[p].key].l
    IN /\ Len(items) = Len(ids)
       /\ \A i \in 1..Len(items) \cap 1..Len(ids) :
             items[i] # 0 /\ hp[items[i]].doc["id"] = ids[i]

\* C13 (as the documentation states it): after every append, remove and pop
\* on a MongoDocRefList, a call that raises included, the list and the id
\* list of the doc it was read from have the same length and the i-th
\* MongoDoc carries the i-th id; after save() the stored id list is the id
\* list of the doc.
C13_ProxyInStep ==
    [][/\ ret'.op \in {"append", "remove", "pop"}
             => InStep(heap', proxies', ret'.oid)
       /\ (ret'.op = "save" /\ ret'.err = "" /\ ret'.cls = "SchemaWithList")
             => \A s \in StoredOf(db'["with_list"], heap'[ret'.h].doc["id"]) :
                   s["users"] = heap'[ret'.h].doc["users"]
      ]_vars

\* the id a list element stands for: the id of an instance, a raw id itself
ElementId(hp, x) == IF x.t = "MongoDoc" THEN hp[x.n].doc["id"] ELSE x

ElementIds(hp, value) ==
    List([i \in 1..Len(value.l) |-> ElementId(hp, value.l[i])])

\* C20 (as the documentation states it): a list of references may mix entity
\* instances and raw ids; create() and attribute assignment with such a list
\* succeed and keep the ids of the elements, in order, in the stored document
\* and in the doc.
C20_MixedListStoresIds ==
    [][/\ \A kwargs \in ListInputs :
             create("SchemaWithList", kwargs, MaxListDocs)
                 => /\ ret'.err = ""
                    /\ \A s \in StoredOf(db'["with_list"],
                                          heap'[ret'.h].doc["id"]) :
                          s["users"] = ElementIds(heap, kwargs["users"])
       /\ \A h \in {x \in Handles : heap[x].ms = "SchemaWithList"} :
             \A value \in Candidates("users") :
                __setattr__(h, "users", value)
                    => /\ ret'.err = ""
                       /\ heap'[h].doc["users"] = ElementIds(heap, value)
      ]_vars

-----------------------------------------------------------------------------
(* Properties of the key codec (specifications SpecCodec and SpecDict) *)

\* the number of keys of the dicts of a value, at every depth
RECURSIVE NumKeys(_)
RECURSIVE NumKeysOf(_, _)
NumKeys(v) ==
    IF v.t = "dict" THEN Cardinality(DOMAIN v.l[1])
                         + NumKeysOf(v.l[1], DOMAIN v.l[1])
    ELSE IF v.t = "list"
         THEN NumKeysOf([i \in 1..Len(v.l) |-> v.l[i]], 1..Len(v.l))
    ELSE 0
NumKeysOf(f, dom) ==
    IF dom = {} THEN 0
    ELSE LET x == CHOOSE y \in dom : TRUE
         IN NumKeys(f[x]) + NumKeysOf(f, dom \ {x})

\* C14 (as the documentation states it): for every nested structure of
\* dicts, lists and scalars whose keys may hold '.', '$' and the characters
\* of the escape tokens, _fix_dict_keys keeps the number of keys, and
\* _unfix_dict_keys of its result is the structure again.
C14_RoundTrip ==
    /\ ret.op = "_fix_dict_keys"
          => /\ ret.err = ""
             /\ NumKeys(heap[2].doc["data"]) = NumKeys(heap[1].doc["data"])
    /\ ret.op = "_unfix_dict_keys"
          => /\ ret.err = ""
             /\ heap[2].doc = heap[1].doc

\* no key of a stored document, at any depth, holds '$' or '.'
KeysEscaped(stored) ==
    \A coll \in Collections : \A d \in stored[coll] : ~ForbiddenKeys(Dict(d))

\* C15 (as the documentation states it): after every create, save, update
\* and update_single_field no key of a stored document, at any depth, in
\* dicts and in the elements of lists, holds '$' or '.', and a reload of the
\* MongoDoc just written shows the keys it was given.
C15_StoredKeysEscaped ==
    [][/\ KeysEscaped(db')
       /\ (/\ ret.op \in {"create", "save", "update", "update_single_field"}
           /\ ret.err = ""
           /\ ret'.op = "reload" /\ ret'.err = "" /\ ret'.h = ret.h)
             => heap'[ret.h].doc = heap[ret.h].doc
      ]_vars

-----------------------------------------------------------------------------
(* Properties of update_single_field (specification SpecDict) *)

\* C18 (as the documentation states it): update_single_field validates the
\* value before it writes: a value of the wrong type, outside the allowed
\* values or not matching the pattern of the field raises an error, writes
\* nothing and leaves the doc of the MongoDoc as it was; on success the
\* stored field and the field of the doc are the storage form of the value.
C18_SingleFieldValidated ==
    [][\A h \in Handles : \A key \in FieldKeys(heap[h].ms) :
         \A value \in Candidates(key) :
           update_single_field(h, key, value)
             => IF _validate_mongo_field(key, [k \in {key} |-> value],
                                         Schema(heap[h].ms)[key]) # ""
                THEN ret'.err # "" /\ db' = db /\ heap' = heap
                ELSE ret'.err = ""
                       => LET v == _deref_if_needed(heap,
                                       Schema(heap[h].ms)[key], value)
                          IN /\ heap'[h].doc[key] = v
                             /\ \A s \in StoredOf(
                                         db'[Collection(heap[h].ms)],
                                         heap[h].doc["id"]) : s[key] = v
      ]_vars

-----------------------------------------------------------------------------
(* Properties of create and the defaults (specification SpecDefault) *)

\* the field carries a constant default or a default_func
CarriesDefault(mf) == mf.default # NoDefault \/ mf.default_func # ""

\* value is what the documentation promises for a field left out: the constant
\* default, or a result of the default_func (a value of the field's type)
IsDefaultOf(mf, value) ==
    IF mf.default_func # "" THEN value.t = mf.type ELSE value = mf.default

\* C16 (as the documentation states it): create fills every field that is
\* absent from the input and carries a default, constant or default_func,
\* before it validates: with valid values for the fields given and every
\* other field carrying a default, create raises no validation error even
\* when those fields are required, and the MongoDoc returned and the stored
\* document hold the default of each field left out.
C16_CreateFillsDefaults ==
    [][\A c \in DefaultEntities : \A kwargs \in KwargsOver(FieldKeys(c)) :
         (/\ create(c, kwargs, MaxDocs)
          /\ \A k \in DOMAIN kwargs :
                _validate_mongo_field(k, kwargs, Schema(c)[k]) = ""
          /\ \A k \in FieldKeys(c) \ DOMAIN kwargs :
                CarriesDefault(Schema(c)[k]))
           => /\ ret'.err \in {"", "DuplicateKeyError"}
              /\ ret'.err = ""
                   => \A k \in FieldKeys(c) \ DOMAIN kwargs :
                        /\ k \in DOMAIN heap'[ret'.h].doc
                        /\ IsDefaultOf(Schema(c)[k], heap'[ret'.h].doc[k])
                        /\ \A s \in StoredOf(db'[Collection(c)],
                                              heap'[ret'.h].doc["id"]) :
                              /\ k \in DOMAIN s
                              /\ IsDefaultOf(Schema(c)[k], s[k])
      ]_vars

-----------------------------------------------------------------------------
(* Properties of concurrent requests (specification SpecConc) *)

\* no two MongoDocs were handed out by create and get for one id
OnePerId ==
    \A c \in ConcEntities : \A e1 \in handed[c] : \A e2 \in handed[c] :
        (/\ e1.via \in {"create", "get"} /\ e2.via \in {"create", "get"}
         /\ e1.oid = e2.oid) => e1.h = e2.h

\* no step puts another MongoDoc under an id the cache already holds
NeverReplaced ==
    \A c \in ConcEntities : \A oid \in DOMAIN cache[c] :
        oid \in DOMAIN cache'[c] => cache'[c][oid] = cache[c][oid]

\* C19 (as the documentation states it): with requests of one class whose
\* cache is enabled switched at every call of the collection, create and get
\* never hand out two MongoDocs for one id, and the MongoDoc the cache holds
\* for an id is never replaced by another one while the cache is not reset.
C19_ConcurrentIdentity == []OnePerId /\ [][NeverReplaced]_vars

-----------------------------------------------------------------------------
(* Properties of dangling references (specification SpecDangling) *)

\* C21 (as the documentation states it): reading a required reference field
\* whose stored id has no matching document of the referenced class (the
\* document was removed) raises; it returns neither None nor NoValue.
C21_DanglingReadRaises ==
    [][\A h \in Handles : \A key \in ReferenceKeys(heap[h].ms) :
         (/\ deref(h, key)
          /\ Schema(heap[h].ms)[key].required
          /\ key \in DOMAIN heap[h].doc
          /\ heap[h].doc[key].t = "ObjectId"
          /\ coll_find(db[Collection(Schema(heap[h].ms)[key].type)],
                       [k \in {"_id"} |-> heap[h].doc[key]]) = {})
           => ret'.err # ""
      ]_vars

-----------------------------------------------------------------------------
(* Properties of the cache after a write (specification SpecCoherence) *)

\* C22 (as stated): on a class whose cache is enabled, after save() has
\* succeeded on a MongoDoc of the document with id x, however the MongoDoc
\* was got, a get(id=x) that follows returns a MongoDoc whose doc equals the
\* stored document.
C22_GetAfterSaveIsCurrent ==
    [][(/\ ret.op = "save" /\ ret.err = ""
        /\ ret'.op = "get" /\ ret'.err = "" /\ ret'.cls = ret.cls
        /\ ret'.oid = ret.oid /\ ret'.oid # 0 /\ ret'.h # 0
        /\ Enabled(ret.cls))
         => \A s \in StoredOf(db'[Collection(ret.cls)],
                               heap'[ret'.h].doc["id"]) :
               heap'[ret'.h].doc = _fromdb(ret.cls, s, Oid(nextId))
      ]_vars

\* C23 (as the documentation states it): get returns only a document that
\* satisfies every predicate of the query: get(id=x, f=v) returns None when
\* the stored document with id x has f different from v, whether or not x is
\* in the cache.
C23_GetHonoursEveryPredicate ==
    [][\A kwargs \in MixedQueries("User") :
         (/\ get("User", kwargs)
          /\ \E s \in StoredOf(db["user"], kwargs["id"]) :
                \E f \in DOMAIN kwargs \ {"id"} : s[f] # kwargs[f])
           => ret'.h = 0 /\ ret'.err = ""
      ]_vars

-----------------------------------------------------------------------------
(* Properties of the stored documents (specification SpecDoc) *)

\* every stored document of class c holds every required field of the
\* schema, and every field it holds has a value of the declared type
StoredValid(c, docs) == \A d \in docs : _validate(c, _fromdb_fix_id(d)) = {}

\* C24 (as stated): after any sequence of create, save, update,
\* update_single_field and field deletions through MongoDoc (this
\* specification runs all but update_single_field, which SpecDict runs),
\* every stored document of a class holds every
\* required field of its schema and every field present holds a value of its
\* declared type.
C24_StoredStaysValid ==
    \A c \in DocEntities : StoredValid(c, db[Collection(c)])

\* C25 (as the documentation states it): all MongoDocRefLists read from one
\* list field of one MongoDoc stay synchronized: after append, remove or pop
\* on one of them that returns, each of them has the length of the id list
\* of the doc and holds at every index the MongoDoc of the id at that index.
C25_AllProxiesInStep ==
    [][(ret'.op \in {"append", "remove", "pop"} /\ ret'.err = "")
         => \A p \in 1..Len(proxies') :
               (/\ proxies'[p].owner = proxies'[ret'.oid].owner
                /\ proxies'[p].key = proxies'[ret'.oid].key)
                 => InStep(heap', proxies', p)
      ]_vars

-----------------------------------------------------------------------------
(* Properties of to_dict (specification SpecToDict) *)

\* C26 (as the documentation states it): with todict_follow_references on
\* for the classes involved, every to_dict call terminates with its result,
\* also when two documents refer to each other: a call that has started
\* returns, and no to_dict call ends with an exception.
C26_ToDictTerminates ==
    /\ \A t \in Requests :
          (threads[t].pc = "to_dict") ~> (threads[t].pc = "idle")
    /\ [][ret'.op = "to_dict" => ret'.err = ""]_vars

=============================================================================
